---- MODULE Spec2Model ----
(***************************************************************************)
(* Virtual git filesystem of vibelab: the in-memory store MemFS and the    *)
(* SQLite-backed store SqliteFS, both driven through the filesystem        *)
(* interface that isomorphic-git consumes.                                 *)
(*                                                                         *)
(* Strings are sequences of one-character strings, so that the path        *)
(* normalisation, split and join of the source are computed, not assumed.  *)
(* Byte contents are a run of zero bytes (counted in blocks of BlockSize)  *)
(* followed by an explicit tail of bytes, so that contents near the        *)
(* 900 KiB ceiling can be written without enumerating every byte.          *)
(***************************************************************************)
EXTENDS Integers, Sequences, FiniteSets, TLC

\* ------------------------------------------------------------------ bounds
\* separators an input path carries at its two ends, taken together
MaxSlashes == 1
\* segments of an input path
MaxDepth == 2
\* bytes in the explicit tail of a content
MaxTailLen == 0
\* rows of git_objects besides the root row, when the SqliteFS runs alone
MaxRows == 3
\* entries of either store when a MemFS runs
MaxFiles == 1

\* one-character segment names used to build the input paths
Names == {"a"}
\* byte values the explicit tails are drawn from
ByteVals == {97}
\* symlink targets (ASCII strings, as sequences of characters)
Targets == {<<"a">>}

\* ------------------------------------------------------- program constants
\* const MAX_OBJECT_SIZE = 900 * 1024
MAX_OBJECT_SIZE == 900 * 1024

\* length of one block of zero bytes; a multiple of 3, so that a block
\* encodes to whole base64 quanta ("AAAA" repeated)
BlockSize == 225 * 1024
FullBlocks == MAX_OBJECT_SIZE \div BlockSize

\* ---------------------------------------------------------------- strings
Slashes(n) == [i \in 1..n |-> "/"]

\* Array.prototype.join('/')
RECURSIVE Join(_)
Join(parts) ==
    IF Len(parts) = 0 THEN <<>>
    ELSE IF Len(parts) = 1 THEN parts[1]
    ELSE parts[1] \o <<"/">> \o Join(Tail(parts))

\* String.prototype.split('/'): "" gives [""], "a/" gives ["a", ""]
RECURSIVE SplitFrom(_, _)
SplitFrom(s, cur) ==
    IF Len(s) = 0 THEN <<cur>>
    ELSE IF Head(s) = "/" THEN <<cur>> \o SplitFrom(Tail(s), <<>>)
    ELSE SplitFrom(Tail(s), Append(cur, Head(s)))

Split(s) == SplitFrom(s, <<>>)

StartsWith(s, pre) ==
    /\ Len(pre) <= Len(s)
    /\ SubSeq(s, 1, Len(pre)) = pre

\* s.slice(n) / s.substring(n) for 0 <= n
Slice(s, n) == IF n >= Len(s) THEN <<>> ELSE SubSeq(s, n + 1, Len(s))

\* path.replace(/^\/+/, '')
RECURSIVE StripLeading(_)
StripLeading(p) ==
    IF Len(p) > 0 /\ Head(p) = "/" THEN StripLeading(Tail(p)) ELSE p

\* the /\/+$/ half of path.replace(/^\/+|\/+$/g, '')
RECURSIVE StripTrailing(_)
StripTrailing(p) ==
    IF Len(p) > 0 /\ p[Len(p)] = "/" THEN StripTrailing(SubSeq(p, 1, Len(p) - 1)) ELSE p

\* path.replace(/^\/+|\/+$/g, '')
StripBoth(p) == StripTrailing(StripLeading(p))

\* path.startsWith('/') ? path.slice(1) : path
MemNormalize(p) == IF StartsWith(p, <<"/">>) THEN Slice(p, 1) ELSE p

\* dirPath === '/' ? '' : (dirPath.startsWith('/') ? dirPath.slice(1) : dirPath)
MemNormalizeDir(p) == IF p = <<"/">> THEN <<>> ELSE MemNormalize(p)

\* ------------------------------------------------------------ input paths
NameSeqs == UNION {[1..k -> {<<n>> : n \in Names}] : k \in 0..MaxDepth}

\* up to MaxDepth segments, with up to MaxSlashes separators before and after
Paths ==
    {Slashes(lt[1]) \o Join(ns) \o Slashes(lt[2]) :
        lt \in {x \in (0..MaxSlashes) \X (0..MaxSlashes) : x[1] + x[2] <= MaxSlashes},
        ns \in NameSeqs}

\* --------------------------------------------------------------- contents
Tails == UNION {[1..k -> ByteVals] : k \in 0..MaxTailLen}

\* a Uint8Array: blocks * BlockSize zero bytes followed by the bytes of tail.
\* The contents written: the short ones, one of exactly MAX_OBJECT_SIZE bytes
\* and one that is a block longer
Datas ==
    [blocks : {0}, tail : Tails] \cup [blocks : {FullBlocks, FullBlocks + 1}, tail : {<<>>}]

ByteLength(d) == d.blocks * BlockSize + Len(d.tail)

EmptyData == [blocks |-> 0, tail |-> <<>>]

\* ----------------------------------------------------------------- base64
B64Alphabet ==
    << "A", "B", "C", "D", "E", "F", "G", "H", "I", "J", "K", "L", "M",
       "N", "O", "P", "Q", "R", "S", "T", "U", "V", "W", "X", "Y", "Z",
       "a", "b", "c", "d", "e", "f", "g", "h", "i", "j", "k", "l", "m",
       "n", "o", "p", "q", "r", "s", "t", "u", "v", "w", "x", "y", "z",
       "0", "1", "2", "3", "4", "5", "6", "7", "8", "9", "+", "/" >>

B64Char(i) == B64Alphabet[i + 1]

B64Index(c) == CHOOSE i \in 0..63 : B64Alphabet[i + 1] = c

\* btoa with the low two bits of a final lone byte shifted by 2 instead of 4
BtoaShortShift(bytes) ==
    IF Len(bytes) = 0 THEN <<>>
    ELSE << B64Char(bytes[1] \div 4), B64Char((bytes[1] % 4) * 4), "=", "=" >>

\* btoa(binaryString), binaryString[i] = String.fromCharCode(bytes[i])
RECURSIVE Btoa(_)
Btoa(bytes) ==
    IF Len(bytes) = 0 THEN <<>>
    ELSE IF Len(bytes) = 1 THEN
        << B64Char(bytes[1] \div 4), B64Char((bytes[1] % 4) * 16), "=", "=" >>
    ELSE IF Len(bytes) = 2 THEN
        << B64Char(bytes[1] \div 4),
           B64Char((bytes[1] % 4) * 16 + bytes[2] \div 16),
           B64Char((bytes[2] % 16) * 4), "=" >>
    ELSE
        << B64Char(bytes[1] \div 4),
           B64Char((bytes[1] % 4) * 16 + bytes[2] \div 16),
           B64Char((bytes[2] % 16) * 4 + bytes[3] \div 64),
           B64Char(bytes[3] % 64) >> \o Btoa(SubSeq(bytes, 4, Len(bytes)))

\* atob(base64Data) on a padded base64 string, bytes[i] = charCodeAt(i)
RECURSIVE Atob(_)
Atob(chars) ==
    IF Len(chars) < 4 THEN <<>>
    ELSE
        LET c1 == B64Index(chars[1])
            c2 == B64Index(chars[2])
            rest == Atob(SubSeq(chars, 5, Len(chars)))
        IN  IF chars[3] = "=" THEN
                << c1 * 4 + c2 \div 16 >> \o rest
            ELSE IF chars[4] = "=" THEN
                << c1 * 4 + c2 \div 16,
                   (c2 % 16) * 16 + B64Index(chars[3]) \div 4 >> \o rest
            ELSE
                << c1 * 4 + c2 \div 16,
                   (c2 % 16) * 16 + B64Index(chars[3]) \div 4,
                   (B64Index(chars[3]) % 4) * 64 + B64Index(chars[4]) >> \o rest

\* the text stored in the data column: blocks * (BlockSize / 3) quanta "AAAA"
\* (the encoding of the zero bytes) followed by the characters of chars
EmptyText == [blocks |-> 0, chars |-> <<>>]

TextLength(e) == e.blocks * (BlockSize \div 3) * 4 + Len(e.chars)

\* writeFile: "Encode to base64 for safe storage"
Encode(d) ==
    IF ByteLength(d) > 0 THEN [blocks |-> d.blocks, chars |-> Btoa(d.tail)]
    ELSE EmptyText

\* readFile: "Decode from base64 - handle empty files"
Decode(e) ==
    IF TextLength(e) = 0 THEN EmptyData
    ELSE [blocks |-> e.blocks, tail |-> Atob(e.chars)]

\* new TextEncoder().encode(target) for an ASCII string: one byte per character
CharCode(c) == IF c = "a" THEN 97 ELSE IF c = "b" THEN 98 ELSE 47

TextEncode(str) == [blocks |-> 0, tail |-> [i \in 1..Len(str) |-> CharCode(str[i])]]

\* new TextDecoder().decode(bytes): an ASCII byte is its character, a byte
\* that is no valid UTF-8 becomes U+FFFD; the zero bytes become NUL characters
CharOf(b) ==
    IF b = 97 THEN "a" ELSE IF b = 98 THEN "b" ELSE IF b = 47 THEN "/"
    ELSE IF b = 0 THEN "NUL" ELSE "FFFD"

TextDecode(d) ==
    [i \in 1..d.blocks |-> "NUL-BLOCK"] \o [i \in 1..Len(d.tail) |-> CharOf(d.tail[i])]

\* ---------------------------------------------------------------- results
\* the outcome of one call: ok, or the code of the error thrown ("NOCODE" for
\* a plain Error that carries no code), with the returned value in the field
\* of its type
Ok == [ok |-> TRUE, code |-> "", kind |-> "", size |-> 0, bytes |-> EmptyData,
       names |-> {}, flag |-> FALSE, text |-> <<>>]

Throw(c) == [Ok EXCEPT !.ok = FALSE, !.code = c]

OkBytes(d) == [Ok EXCEPT !.bytes = d]
OkStat(k, n) == [Ok EXCEPT !.kind = k, !.size = n]
OkNames(s) == [Ok EXCEPT !.names = s]
OkFlag(b) == [Ok EXCEPT !.flag = b]
OkText(str) == [Ok EXCEPT !.text = str]

\* no call was made on this store
NoCall == [Ok EXCEPT !.code = "-"]

\* ---------------------------------------------------------------- SqliteFS
\* the git_objects table: path (primary key) -> parent_path, data, is_dir
\* (mtime is advisory and left out)
Row(parent, text, isDir) == [parent_path |-> parent, data |-> text, is_dir |-> isDir]

\* INSERT OR IGNORE INTO git_objects
InsertOrIgnore(t, key, row) ==
    IF key \in DOMAIN t THEN t
    ELSE [k \in DOMAIN t \cup {key} |-> IF k = key THEN row ELSE t[k]]

\* INSERT OR REPLACE INTO git_objects
InsertOrReplace(t, key, row) ==
    [k \in DOMAIN t \cup {key} |-> IF k = key THEN row ELSE t[k]]

\* DELETE FROM git_objects WHERE path = key
DeleteRow(t, key) == [k \in DOMAIN t \ {key} |-> t[k]]

\* SQLite folds ASCII case in LIKE
Fold(c) == IF c = "A" THEN "a" ELSE IF c = "B" THEN "b" ELSE c

\* SQLite's  s LIKE pat : % matches any run of characters, _ any one character
RECURSIVE Like(_, _)
Like(s, pat) ==
    IF Len(pat) = 0 THEN Len(s) = 0
    ELSE IF Head(pat) = "%" THEN
        \E n \in 0..Len(s) : Like(Slice(s, n), Tail(pat))
    ELSE IF Len(s) = 0 THEN FALSE
    ELSE IF Head(pat) = "_" \/ Fold(Head(pat)) = Fold(Head(s)) THEN
        Like(Tail(s), Tail(pat))
    ELSE FALSE

\* init(): CREATE TABLE IF NOT EXISTS ..., then
\* INSERT OR IGNORE the root row ('', '', '', 1)
\* init that recreates the table instead of CREATE TABLE IF NOT EXISTS
SqlInitFresh(t) ==
    [st |-> InsertOrIgnore(<< >>, <<>>, Row(<<>>, EmptyText, 1)), res |-> Ok]

SqlInit(t) ==
    [st |-> InsertOrIgnore(t, <<>>, Row(<<>>, EmptyText, 1)), res |-> Ok]

\* readFile without the is_dir check: a directory row reads as its data column
SqlReadFileNoDirCheck(t, path) ==
    LET normalized == StripLeading(path)
    IN  IF normalized \notin DOMAIN t THEN [st |-> t, res |-> Throw("ENOENT")]
        ELSE [st |-> t, res |-> OkBytes(Decode(t[normalized].data))]

SqlReadFile(t, path) ==
    LET normalized == StripLeading(path)
    IN  IF normalized \notin DOMAIN t THEN [st |-> t, res |-> Throw("ENOENT")]
        ELSE IF t[normalized].is_dir # 0 THEN [st |-> t, res |-> Throw("EISDIR")]
        ELSE [st |-> t, res |-> OkBytes(Decode(t[normalized].data))]

\* the loop "Ensure parent directories exist": for i = lo .. parts.length - 2
\* (0-based), INSERT OR IGNORE the directory parts[0..i] under parts[0..i-1]
RECURSIVE EnsureParents(_, _, _)
EnsureParents(t, parts, i) ==
    IF i > Len(parts) - 1 THEN t
    ELSE EnsureParents(
            InsertOrIgnore(t, Join(SubSeq(parts, 1, i)),
                           Row(Join(SubSeq(parts, 1, i - 1)), EmptyText, 1)),
            parts, i + 1)

\* writeFile that creates the parent directories before its checks
SqlWriteFileParentsFirst(t, path, data) ==
    LET normalized == StripLeading(path)
        parts == Split(normalized)
        parentPath == Join(SubSeq(parts, 1, Len(parts) - 1))
        withParents == EnsureParents(t, parts, 1)
    IN  IF normalized = <<>> THEN [st |-> t, res |-> Throw("NOCODE")]
        ELSE IF ByteLength(data) > MAX_OBJECT_SIZE THEN
            [st |-> withParents, res |-> Throw("NOCODE")]
        ELSE IF normalized \in DOMAIN t /\ t[normalized].is_dir = 1 THEN
            [st |-> withParents, res |-> Throw("EISDIR")]
        ELSE
            [st |-> InsertOrReplace(withParents, normalized,
                                    Row(parentPath, Encode(data), 0)),
             res |-> Ok]

SqlWriteFile(t, path, data) ==
    LET normalized == StripLeading(path)
        parts == Split(normalized)
        parentPath == Join(SubSeq(parts, 1, Len(parts) - 1))
    IN  IF normalized = <<>> THEN [st |-> t, res |-> Throw("NOCODE")]
        ELSE IF ByteLength(data) > MAX_OBJECT_SIZE THEN [st |-> t, res |-> Throw("NOCODE")]
        ELSE IF normalized \in DOMAIN t /\ t[normalized].is_dir = 1 THEN
            [st |-> t, res |-> Throw("EISDIR")]
        ELSE
            [st |-> InsertOrReplace(EnsureParents(t, parts, 1), normalized,
                                    Row(parentPath, Encode(data), 0)),
             res |-> Ok]

\* unlink without the EPERM check, relying on "AND is_dir = 0" of the DELETE
SqlUnlinkNoDirCheck(t, path) ==
    LET normalized == StripLeading(path)
    IN  IF normalized \notin DOMAIN t THEN [st |-> t, res |-> Throw("ENOENT")]
        ELSE [st |-> IF t[normalized].is_dir = 0 THEN DeleteRow(t, normalized) ELSE t,
              res |-> Ok]

SqlUnlink(t, path) ==
    LET normalized == StripLeading(path)
    IN  IF normalized \notin DOMAIN t THEN [st |-> t, res |-> Throw("ENOENT")]
        ELSE IF t[normalized].is_dir = 1 THEN [st |-> t, res |-> Throw("EPERM")]
        ELSE [st |-> IF t[normalized].is_dir = 0 THEN DeleteRow(t, normalized) ELSE t,
              res |-> Ok]

SqlReaddir(t, path) ==
    LET normalized == StripBoth(path)
        rows == {k \in DOMAIN t : t[k].parent_path = normalized}
        basename(k) == Split(k)[Len(Split(k))]
    IN  IF normalized \notin DOMAIN t \/ t[normalized].is_dir = 0 THEN
            [st |-> t, res |-> Throw("ENOENT")]
        ELSE [st |-> t, res |-> OkNames({basename(k) : k \in rows})]

\* children.length: readdir returns an array with one name per selected row
SqlReaddirLength(t, path) ==
    Cardinality({k \in DOMAIN t : t[k].parent_path = StripBoth(path)})

\* mkdir that inserts the row without validating the parent
SqlMkdirNoParentCheck(t, path) ==
    LET normalized == StripBoth(path)
        parts == Split(normalized)
        parentPath == Join(SubSeq(parts, 1, Len(parts) - 1))
    IN  IF normalized = <<>> THEN [st |-> t, res |-> Ok]
        ELSE IF normalized \in DOMAIN t THEN
            IF t[normalized].is_dir = 1 THEN [st |-> t, res |-> Ok]
            ELSE [st |-> t, res |-> Throw("EEXIST")]
        ELSE [st |-> InsertOrIgnore(t, normalized, Row(parentPath, EmptyText, 1)),
              res |-> Ok]

SqlMkdir(t, path) ==
    LET normalized == StripBoth(path)
        parts == Split(normalized)
        isDirectChildOfRoot == Len(parts) = 1
        parentPath == Join(SubSeq(parts, 1, Len(parts) - 1))
    IN  IF normalized = <<>> THEN [st |-> t, res |-> Ok]
        ELSE IF /\ ~isDirectChildOfRoot
                /\ (parentPath \notin DOMAIN t \/ t[parentPath].is_dir # 1) THEN
            [st |-> t, res |-> Throw("ENOENT")]
        ELSE IF normalized \in DOMAIN t THEN
            IF t[normalized].is_dir = 1 THEN [st |-> t, res |-> Ok]
            ELSE [st |-> t, res |-> Throw("EEXIST")]
        ELSE [st |-> InsertOrIgnore(t, normalized, Row(parentPath, EmptyText, 1)),
              res |-> Ok]

SqlRmdir(t, path) ==
    LET normalized == StripBoth(path)
        children == {k \in DOMAIN t : Like(k, normalized \o <<"/", "%">>)}
    IN  IF normalized = <<>> THEN [st |-> t, res |-> Throw("NOCODE")]
        ELSE IF normalized \notin DOMAIN t THEN [st |-> t, res |-> Throw("ENOENT")]
        ELSE IF t[normalized].is_dir # 1 THEN [st |-> t, res |-> Throw("ENOTDIR")]
        ELSE IF children # {} THEN [st |-> t, res |-> Throw("ENOTEMPTY")]
        ELSE [st |-> DeleteRow(t, normalized), res |-> Ok]

\* stat that reports the length of the data column as the size
SqlStatEncodedLength(t, path) ==
    LET normalized == StripLeading(path)
        row == t[normalized]
        isDir == row.is_dir = 1
        size == IF ~isDir /\ TextLength(row.data) > 0
                THEN TextLength(row.data)
                ELSE 0
    IN  IF normalized \notin DOMAIN t THEN [st |-> t, res |-> Throw("ENOENT")]
        ELSE [st |-> t, res |-> OkStat(IF isDir THEN "dir" ELSE "file", size)]

SqlStat(t, path) ==
    LET normalized == StripLeading(path)
        row == t[normalized]
        isDir == row.is_dir = 1
        size == IF ~isDir /\ TextLength(row.data) > 0
                THEN (TextLength(row.data) * 3) \div 4
                ELSE 0
    IN  IF normalized \notin DOMAIN t THEN [st |-> t, res |-> Throw("ENOENT")]
        ELSE [st |-> t, res |-> OkStat(IF isDir THEN "dir" ELSE "file", size)]

SqlLstat(t, path) == SqlStat(t, path)

\* symlink with its two arguments exchanged
SqlSymlinkSwapped(t, target, path) == SqlWriteFile(t, target, TextEncode(path))

SqlSymlink(t, target, path) == SqlWriteFile(t, path, TextEncode(target))

SqlReadlink(t, path) ==
    LET r == SqlReadFile(t, path)
    IN  IF r.res.ok THEN [st |-> t, res |-> OkText(TextDecode(r.res.bytes))] ELSE r

SqlExists(t, path) ==
    LET r == SqlStat(t, path)
    IN  IF r.res.ok THEN [st |-> t, res |-> OkFlag(TRUE)]
        ELSE IF r.res.code = "ENOENT" THEN [st |-> t, res |-> OkFlag(FALSE)]
        ELSE r

\* ------------------------------------------------------------------- MemFS
\* files: Map<string, Uint8Array>
MemWriteFile(f, path, data) ==
    LET normalized == MemNormalize(path)
    IN  [st |-> [k \in DOMAIN f \cup {normalized} |->
                    IF k = normalized THEN data ELSE f[k]],
         res |-> Ok]

MemReadFile(f, path) ==
    LET normalized == MemNormalize(path)
    IN  IF normalized \notin DOMAIN f THEN [st |-> f, res |-> Throw("ENOENT")]
        ELSE [st |-> f, res |-> OkBytes(f[normalized])]

MemReaddir(f, dirPath) ==
    LET normalized == MemNormalizeDir(dirPath)
        prefix == IF normalized # <<>> THEN normalized \o <<"/">> ELSE <<>>
        firstPart(k) == Split(Slice(k, Len(prefix)))[1]
    IN  [st |-> f,
         res |-> OkNames({firstPart(k) :
                    k \in {x \in DOMAIN f : StartsWith(x, prefix) /\ firstPart(x) # <<>>}})]

MemStat(f, path) ==
    LET normalized == MemNormalize(path)
        prefix == IF normalized # <<>> THEN normalized \o <<"/">> ELSE <<>>
    IN  IF normalized \in DOMAIN f THEN
            [st |-> f, res |-> OkStat("file", ByteLength(f[normalized]))]
        ELSE IF \E k \in DOMAIN f : StartsWith(k, prefix) THEN
            [st |-> f, res |-> OkStat("dir", 0)]
        ELSE [st |-> f, res |-> Throw("ENOENT")]

MemLstat(f, path) == MemStat(f, path)

\* mkdir(): no-op
MemMkdir(f, path) == [st |-> f, res |-> Ok]

\* rmdir(): no-op
MemRmdir(f, path) == [st |-> f, res |-> Ok]

\* this.files.delete(normalized)
MemUnlink(f, path) ==
    LET normalized == MemNormalize(path)
    IN  [st |-> [k \in DOMAIN f \ {normalized} |-> f[k]], res |-> Ok]

MemExists(f, path) ==
    IF MemStat(f, path).res.ok THEN [st |-> f, res |-> OkFlag(TRUE)]
    ELSE [st |-> f, res |-> OkFlag(FALSE)]

\* ------------------------------------------------------------------- state
VARIABLES
    backend, \* the store(s) the caller drives: "MemFS", "SqliteFS", or "both"
    files,   \* MemFS.files
    table,   \* the rows of git_objects behind SqliteFS
    pc,              \* position of the call in progress, "idle" when none runs
    templateDetails, \* options.templateDetails of the buildRepository call
    stack,           \* the recursive calls in progress, innermost first
    agentHeadOid,    \* const agentHeadOid in buildRepository, 0 before it is set
    events,          \* what the call in progress has done so far, in order
    peer,            \* a second buildRepository call that is waiting at an await
    http             \* the request a git HTTP handler is serving, and its world

fsVars == <<backend, files, table>>
buildVars == <<pc, templateDetails, stack, agentHeadOid, events>>
otherVars == <<peer, http>>
vars == <<backend, files, table, pc, templateDetails, stack, agentHeadOid, events, peer, http>>

Backends == {"MemFS", "SqliteFS", "both"}

OnMem == backend \in {"MemFS", "both"}
OnSql == backend \in {"SqliteFS", "both"}

\* a SqliteFS driven alone holds at most MaxRows rows (the root row apart);
\* when a MemFS is driven, each store holds at most MaxFiles entries
Fits(f, t) ==
    /\ Cardinality(DOMAIN f) <= MaxFiles
    /\ Cardinality(DOMAIN t \ {<<>>}) <= (IF OnMem THEN MaxFiles ELSE MaxRows)

\* new MemFS(); new SqliteFS(sql) followed by init()
NoTemplate == [isNull |-> TRUE, allFiles |-> << >>]

\* no second call is waiting, no request is being served
NoPeer == [pc |-> "idle"]
NoRequest == [app |-> "none"]
OthersIdle ==
    /\ peer = NoPeer
    /\ http = NoRequest

\* no buildRepository call is running
BuildIdle ==
    /\ pc = "idle"
    /\ templateDetails = NoTemplate
    /\ stack = << >>
    /\ agentHeadOid = 0
    /\ events = << >>
    /\ OthersIdle

Init ==
    /\ backend \in Backends
    /\ files = << >>
    /\ table = SqlInit(<< >>).st
    /\ BuildIdle

\* one call of the filesystem interface, made on every store that is driven:
\* m and s are what the call does on the MemFS and on the SqliteFS
Both(m, s) ==
    /\ Fits(IF OnMem THEN m.st ELSE files, IF OnSql THEN s.st ELSE table)
    /\ files' = IF OnMem THEN m.st ELSE files
    /\ table' = IF OnSql THEN s.st ELSE table
    /\ UNCHANGED <<otherVars, backend, buildVars>>

\* one call of an operation that only SqliteFS has
SqlOnly(s) ==
    /\ backend = "SqliteFS"
    /\ Fits(files, s.st)
    /\ table' = s.st
    /\ UNCHANGED <<otherVars, backend, files, buildVars>>

WriteFile ==
    \E p \in Paths, d \in Datas :
        Both(MemWriteFile(files, p, d), SqlWriteFile(table, p, d))

ReadFile ==
    \E p \in Paths : Both(MemReadFile(files, p), SqlReadFile(table, p))

Unlink ==
    \E p \in Paths : Both(MemUnlink(files, p), SqlUnlink(table, p))

Readdir ==
    \E p \in Paths : Both(MemReaddir(files, p), SqlReaddir(table, p))

Mkdir ==
    \E p \in Paths : Both(MemMkdir(files, p), SqlMkdir(table, p))

Rmdir ==
    \E p \in Paths : Both(MemRmdir(files, p), SqlRmdir(table, p))

Stat ==
    \E p \in Paths : Both(MemStat(files, p), SqlStat(table, p))

Lstat ==
    \E p \in Paths : Both(MemLstat(files, p), SqlLstat(table, p))

Exists ==
    \E p \in Paths : Both(MemExists(files, p), SqlExists(table, p))

Symlink ==
    \E p \in Paths, target \in Targets : SqlOnly(SqlSymlink(table, target, p))

Readlink ==
    \E p \in Paths : SqlOnly(SqlReadlink(table, p))

ReInit ==
    SqlOnly(SqlInit(table))

Next ==
    \/ WriteFile
    \/ ReadFile
    \/ Unlink
    \/ Readdir
    \/ Mkdir
    \/ Rmdir
    \/ Stat
    \/ Lstat
    \/ Exists
    \/ Symlink
    \/ Readlink
    \/ ReInit

Spec == Init /\ [][Next]_vars

\* ------------------------------------------- SqliteFS, names of mixed case
\* The same SqliteFS, called with paths whose segments differ in case only:
\* the LIKE of rmdir folds ASCII case, the = of every other query does not.
CaseNames == {"a", "A"}
CaseNameSeqs == UNION {[1..k -> {<<n>> : n \in CaseNames}] : k \in 0..MaxDepth}
CasePaths ==
    {Slashes(lt[1]) \o Join(ns) \o Slashes(lt[2]) :
        lt \in {x \in (0..MaxSlashes) \X (0..MaxSlashes) : x[1] + x[2] <= MaxSlashes},
        ns \in CaseNameSeqs}

\* new SqliteFS(sql) followed by init()
CaseInit ==
    /\ backend = "SqliteFS"
    /\ files = << >>
    /\ table = SqlInit(<< >>).st
    /\ BuildIdle

CaseWriteFile ==
    \E p \in CasePaths, d \in Datas : SqlOnly(SqlWriteFile(table, p, d))

CaseReadFile ==
    \E p \in CasePaths : SqlOnly(SqlReadFile(table, p))

CaseUnlink ==
    \E p \in CasePaths : SqlOnly(SqlUnlink(table, p))

CaseReaddir ==
    \E p \in CasePaths : SqlOnly(SqlReaddir(table, p))

CaseMkdir ==
    \E p \in CasePaths : SqlOnly(SqlMkdir(table, p))

CaseRmdir ==
    \E p \in CasePaths : SqlOnly(SqlRmdir(table, p))

CaseStat ==
    \E p \in CasePaths : SqlOnly(SqlStat(table, p))

CaseNext ==
    \/ CaseWriteFile
    \/ CaseReadFile
    \/ CaseUnlink
    \/ CaseReaddir
    \/ CaseMkdir
    \/ CaseRmdir
    \/ CaseStat

CaseSpec == CaseInit /\ [][CaseNext]_vars

\* --------------------------------------- GitCloneService.buildRepository
\* Paths and contents of a repository. The git library (isomorphic-git) is
\* outside the repository: it is modelled by the files it reads and writes.
\* A path segment is one element of the sequence.
GitDir == <<"/", ".git">>
HeadPath == GitDir \o <<"/", "HEAD">>
MainRef == GitDir \o <<"/", "refs", "/", "heads", "/", "main">>
IndexPath == GitDir \o <<"/", "index">>

\* commit ids: the template commit, and the commits of the session
TemplateOid == 1
SessionOids == {2, 3}
NoParent == 0

ObjectNames ==
    <<"c1", "c2", "c3", "c4", "c5", "c6", "c7", "c8", "c9",
      "b10", "b11", "t12", "t13", "t14", "t15">>
ObjectName(oid) == ObjectNames[oid]
ObjectPath(oid) == GitDir \o <<"/", "objects", "/", ObjectName(oid)>>

Bytes(seq) == [blocks |-> 0, tail |-> seq]
\* "ref: refs/heads/main\n"
SymbolicHead == Bytes(<<255>>)
\* a ref file holds a commit id; a commit object names its parent
RefContent(oid) == Bytes(<<oid>>)
CommitObject(parent) == Bytes(<<parent>>)

\* git.init({ fs, dir: '/', defaultBranch: 'main' })
GitInit(f) == MemWriteFile(f, HeadPath, SymbolicHead).st

\* git.add({ fs, dir: '/', filepath: '.' })
GitAdd(f) == MemWriteFile(f, IndexPath, Bytes(<<TemplateOid>>)).st

\* git.commit: the commit object, and the branch HEAD names moved to it
GitCommit(f, oid, parent) ==
    MemWriteFile(MemWriteFile(f, ObjectPath(oid), CommitObject(parent)).st,
                 MainRef, RefContent(oid)).st

\* writeRef that writes the template commit, whatever value it is given
GitWriteRefTemplate(f, ref, value) == MemWriteFile(f, ref, RefContent(TemplateOid)).st

\* git.writeRef({ fs, dir: '/', ref, value, force: true })
GitWriteRef(f, ref, value) == MemWriteFile(f, ref, RefContent(value)).st

\* git.resolveRef, given what reading HEAD and reading the branch return
ResolveRef(head, branch) ==
    IF ~head.ok \/ Len(head.bytes.tail) # 1 THEN [ok |-> FALSE, oid |-> 0]
    ELSE IF head.bytes # SymbolicHead THEN [ok |-> TRUE, oid |-> head.bytes.tail[1]]
    ELSE IF ~branch.ok \/ Len(branch.bytes.tail) # 1 THEN [ok |-> FALSE, oid |-> 0]
    ELSE [ok |-> TRUE, oid |-> branch.bytes.tail[1]]

\* git.resolveRef({ fs: agentGitFS, dir: '/', ref: 'HEAD' })
SqlResolveHead(t) == ResolveRef(SqlReadFile(t, HeadPath).res, SqlReadFile(t, MainRef).res)

\* git.resolveRef({ fs, dir: '/', ref: 'HEAD' }) and ref: 'refs/heads/main'
MemResolveHead(f) == ResolveRef(MemReadFile(f, HeadPath).res, MemReadFile(f, MainRef).res)
MemResolveMain(f) == ResolveRef(MemReadFile(f, MainRef).res, MemReadFile(f, MainRef).res)

\* git.readCommit on the built repository: the parent a commit object names
MemCommitParent(f, oid) ==
    LET r == MemReadFile(f, ObjectPath(oid)).res
    IN  IF r.ok /\ Len(r.bytes.tail) \in {1, 2} THEN r.bytes.tail[1] ELSE NoParent

\* the commit and the commits reached from it by following parents
RECURSIVE CommitChain(_, _, _)
CommitChain(f, oid, fuel) ==
    IF oid = NoParent \/ fuel = 0 THEN {}
    ELSE {oid} \cup CommitChain(f, MemCommitParent(f, oid), fuel - 1)

MaxChain == 4

\* the session stores a build is given: the table after the GitVersionControl
\* constructor, after its init(), and after one and two commits
SessionEmpty == SqlInit(<< >>).st
SessionInit == SqlWriteFile(SessionEmpty, HeadPath, SymbolicHead).st
SessionCommit(t, oid, parent) ==
    SqlWriteFile(SqlWriteFile(t, ObjectPath(oid), CommitObject(parent)).st,
                 MainRef, RefContent(oid)).st
Sessions ==
    {SessionEmpty, SessionInit, SessionCommit(SessionInit, 2, NoParent),
     SessionCommit(SessionCommit(SessionInit, 2, NoParent), 3, 2)}

\* options.templateDetails: null, or a template with its files
Templates ==
    {NoTemplate,
     [isNull |-> FALSE, allFiles |-> << >>],
     [isNull |-> FALSE, allFiles |-> (<<"a">> :> <<"a">>)],
     [isNull |-> FALSE, allFiles |-> (<<"a">> :> <<"a">> @@ <<"b", "/", "a">> :> <<"b">>)]}

\* for (const [path, content] of Object.entries(allFiles)) fs.writeFile(path, content)
RECURSIVE WriteTemplateFiles(_, _, _)
WriteTemplateFiles(f, allFiles, todo) ==
    IF todo = {} THEN f
    ELSE LET path == CHOOSE x \in todo : TRUE
         IN  WriteTemplateFiles(MemWriteFile(f, path, TextEncode(allFiles[path])).st,
                                allFiles, todo \ {path})

\* hasGitRepository calls agentFS.readdir('/.git') without await inside its
\* try: the promise is dropped, nothing is thrown, and it returns true
HasGitRepository(t) == TRUE

\* the template branch left out
AfterInitNoTemplate(td) == "hasGitRepository"

\* if (templateDetails?.allFiles)
AfterInit(td) == IF td.isNull THEN "hasGitRepository" ELSE "writeTemplate"

\* a buildRepository call starts: const fs = new MemFS()
BuildInit ==
    /\ backend = "both"
    /\ files = << >>
    /\ table \in Sessions
    /\ pc = "git.init"
    /\ templateDetails \in Templates
    /\ stack = << >>
    /\ agentHeadOid = 0
    /\ events = << >>
    /\ OthersIdle

\* the outer catch: throw new Error(`Failed to build repository: ...`)
\* why is "fault" when a call failed for a reason outside the program (the
\* library or the storage threw), "enoent" when SqliteFS.readdir threw ENOENT
BuildFails(why) ==
    /\ pc' = "failed"
    /\ events' = Append(events, why)
    /\ UNCHANGED <<otherVars, fsVars, templateDetails, stack, agentHeadOid>>

BuildGitInit ==
    /\ pc = "git.init"
    /\ \/ /\ files' = GitInit(files)
          /\ pc' = AfterInit(templateDetails)
          /\ UNCHANGED <<otherVars, backend, table, templateDetails, stack, agentHeadOid, events>>
       \/ BuildFails("fault")

BuildWriteTemplate ==
    /\ pc = "writeTemplate"
    /\ files' = WriteTemplateFiles(files, templateDetails.allFiles,
                                   DOMAIN templateDetails.allFiles)
    /\ pc' = "git.add"
    /\ UNCHANGED <<otherVars, backend, table, templateDetails, stack, agentHeadOid, events>>

BuildGitAdd ==
    /\ pc = "git.add"
    /\ \/ /\ files' = GitAdd(files)
          /\ pc' = "git.commit"
          /\ UNCHANGED <<otherVars, backend, table, templateDetails, stack, agentHeadOid, events>>
       \/ BuildFails("fault")

BuildGitCommit ==
    /\ pc = "git.commit"
    /\ \/ /\ files' = GitCommit(files, TemplateOid, NoParent)
          /\ events' = Append(events, "template-commit")
          /\ pc' = "hasGitRepository"
          /\ UNCHANGED <<otherVars, backend, table, templateDetails, stack, agentHeadOid>>
       \/ BuildFails("fault")

BuildHasGitRepository ==
    /\ pc = "hasGitRepository"
    /\ pc' = IF HasGitRepository(table) THEN "copyGitObjects" ELSE "returned"
    /\ UNCHANGED <<otherVars, fsVars, templateDetails, stack, agentHeadOid, events>>

\* copyGitObjects: the first readdir of copyDirectory('/.git') is not inside
\* the per-entry try, so its failure is rethrown
CopyGitObjects ==
    /\ pc = "copyGitObjects"
    /\ LET r == SqlReaddir(table, GitDir).res
       IN  IF r.ok
           THEN \/ /\ stack' = <<[dirPath |-> GitDir, entries |-> r.names]>>
                   /\ pc' = "copyDirectory"
                   /\ UNCHANGED <<otherVars, fsVars, templateDetails, agentHeadOid, events>>
                \/ BuildFails("fault")
           ELSE BuildFails("enoent")

\* one iteration of the for loop of the innermost copyDirectory call; the
\* order of the entries is that of an unordered SELECT. fault: one of the
\* calls in the try block throws for a reason outside the program
CopyDirectoryEntry ==
    /\ pc = "copyDirectory"
    /\ stack # << >>
    /\ \E entry \in Head(stack).entries, fault \in BOOLEAN :
        LET top == Head(stack)
            fullPath == top.dirPath \o <<"/">> \o entry
            rest == <<[top EXCEPT !.entries = @ \ {entry}]>> \o Tail(stack)
            st == SqlStat(table, fullPath).res
            data == SqlReadFile(table, fullPath).res
            sub == SqlReaddir(table, fullPath).res
        IN  IF ~fault /\ st.ok /\ st.kind = "file" /\ data.ok THEN
                /\ files' = MemWriteFile(files, fullPath, data.bytes).st
                /\ events' = Append(events, "copy-file")
                /\ stack' = rest
                /\ UNCHANGED <<otherVars, backend, table, pc, templateDetails, agentHeadOid>>
            ELSE IF ~fault /\ st.ok /\ st.kind = "dir" /\ sub.ok THEN
                /\ stack' = <<[dirPath |-> fullPath, entries |-> sub.names]>> \o rest
                /\ UNCHANGED <<otherVars, fsVars, pc, templateDetails, agentHeadOid, events>>
            ELSE
                \* catch: logger.warn, continue with the other entries
                /\ stack' = rest
                /\ events' = Append(events, "copy-skip")
                /\ UNCHANGED <<otherVars, fsVars, pc, templateDetails, agentHeadOid>>

\* the for loop of the innermost copyDirectory call is over
CopyDirectoryReturn ==
    /\ pc = "copyDirectory"
    /\ stack # << >>
    /\ Head(stack).entries = {}
    /\ stack' = Tail(stack)
    /\ IF Tail(stack) = << >>
       THEN /\ pc' = "git.resolveRef"
            /\ events' = Append(events, "history-copy")
       ELSE UNCHANGED <<pc, events>>
    /\ UNCHANGED <<otherVars, fsVars, templateDetails, agentHeadOid>>

\* a failure is caught by the inner catch: logger.warn, and the build goes on
BuildResolveRef ==
    /\ pc = "git.resolveRef"
    /\ \E fault \in BOOLEAN :
        LET r == SqlResolveHead(table)
        IN  IF ~fault /\ r.ok
            THEN /\ agentHeadOid' = r.oid
                 /\ pc' = "git.writeRef"
                 /\ UNCHANGED events
            ELSE /\ pc' = "returned"
                 /\ events' = Append(events, "repoint-failure")
                 /\ UNCHANGED agentHeadOid
    /\ UNCHANGED <<otherVars, fsVars, templateDetails, stack>>

BuildWriteRef ==
    /\ pc = "git.writeRef"
    /\ \/ /\ files' = GitWriteRef(files, MainRef, agentHeadOid)
          /\ events' = Append(events, "ref-repoint")
       \/ /\ events' = Append(events, "repoint-failure")
          /\ UNCHANGED files
    /\ pc' = "returned"
    /\ UNCHANGED <<otherVars, backend, table, templateDetails, stack, agentHeadOid>>

BuildNext ==
    \/ BuildGitInit
    \/ BuildWriteTemplate
    \/ BuildGitAdd
    \/ BuildGitCommit
    \/ BuildHasGitRepository
    \/ CopyGitObjects
    \/ CopyDirectoryEntry
    \/ CopyDirectoryReturn
    \/ BuildResolveRef
    \/ BuildWriteRef

BuildSpec == BuildInit /\ [][BuildNext]_vars

\* ------------------------------------------- two concurrent buildRepository
\* Two clone requests on the same session, interleaved at their awaits. The
\* call that is running has its state in files, pc, templateDetails, stack,
\* agentHeadOid and events; the call that waits has its state in peer.
PairTemplates ==
    <<[isNull |-> FALSE, allFiles |-> (<<"a">> :> <<"a">>)],
      [isNull |-> FALSE, allFiles |-> (<<"a">> :> <<"b">> @@ <<"b", "/", "a">> :> <<"b">>)]>>

\* const fs = new MemFS(): private files = new Map()
NewMemFS == << >>

Waiting(id, f, position, td, st, head, ev) ==
    [id |-> id, files |-> f, pc |-> position, templateDetails |-> td, stack |-> st,
     agentHeadOid |-> head, events |-> ev]

\* both calls working on one store
SwitchStoreShared(mine, theirs) == mine

\* the store the call that resumes works on: its own
SwitchStore(mine, theirs) == theirs

PairInit ==
    /\ backend = "both"
    /\ table = SessionCommit(SessionInit, 2, NoParent)
    /\ files = NewMemFS
    /\ pc = "git.init"
    /\ templateDetails = PairTemplates[1]
    /\ stack = << >>
    /\ agentHeadOid = 0
    /\ events = << >>
    /\ peer = Waiting(2, NewMemFS, "git.init", PairTemplates[2], << >>, 0, << >>)
    /\ http = NoRequest

\* the running call reaches an await and the waiting call resumes
PairSwitch ==
    /\ peer.pc \notin {"returned", "failed"}
    /\ files' = SwitchStore(files, peer.files)
    /\ pc' = peer.pc
    /\ templateDetails' = peer.templateDetails
    /\ stack' = peer.stack
    /\ agentHeadOid' = peer.agentHeadOid
    /\ events' = peer.events
    /\ peer' = Waiting(3 - peer.id, files, pc, templateDetails, stack, agentHeadOid, events)
    /\ UNCHANGED <<backend, table, http>>

PairNext ==
    \/ BuildNext
    \/ PairSwitch

PairSpec == PairInit /\ [][PairNext]_vars

\* ------------------------------------------- GitCloneService.handleInfoRefs
\* A JavaScript string is the sequence of its UTF-16 code units, one element
\* per unit; "\n" is the line feed, "NUL" is \0, "U+00E9" is the one unit of
\* e-acute. A path segment written as one element ("main") is spelled out.
Spell(seg) ==
    IF seg = <<"main">> THEN <<"m", "a", "i", "n">> ELSE seg

\* the bytes TextEncoder gives a code unit: one for ASCII, two for U+00E9
Utf8Width(c) == IF c = "U+00E9" THEN 2 ELSE 1

RECURSIVE Utf8Length(_)
Utf8Length(str) == IF str = << >> THEN 0 ELSE Utf8Width(Head(str)) + Utf8Length(Tail(str))

HexDigits == <<"0", "1", "2", "3", "4", "5", "6", "7", "8", "9", "a", "b", "c", "d", "e", "f">>

\* Number.prototype.toString(16)
RECURSIVE ToString16(_)
ToString16(n) ==
    IF n < 16 THEN <<HexDigits[n + 1]>>
    ELSE ToString16(n \div 16) \o <<HexDigits[(n % 16) + 1]>>

\* String.prototype.padStart(targetLength, '0'): never shortens
PadStart(str, targetLength) ==
    [i \in 1..(targetLength - Len(str)) |-> "0"] \o str

\* the number a string of lowercase hex digits stands for, -1 when it has
\* another character
HexDigitValue(c) ==
    IF \E i \in 1..16 : HexDigits[i] = c
    THEN (CHOOSE i \in 1..16 : HexDigits[i] = c) - 1 ELSE -1

RECURSIVE ParseHex(_, _)
ParseHex(str, acc) ==
    IF str = << >> THEN acc
    ELSE IF HexDigitValue(Head(str)) < 0 THEN -1
    ELSE ParseHex(Tail(str), acc * 16 + HexDigitValue(Head(str)))

\* formatPacketLine without the 4 of the prefix in the length
FormatPacketLinePayloadOnly(data) == PadStart(ToString16(Len(data)), 4) \o data

\* formatPacketLine(data): data.length counts UTF-16 code units
FormatPacketLine(data) == PadStart(ToString16(Len(data) + 4), 4) \o data

\* '001e# service=git-upload-pack\n'
ServiceLine ==
    <<"0", "0", "1", "e", "#", " ", "s", "e", "r", "v", "i", "c", "e", "=",
      "g", "i", "t", "-", "u", "p", "l", "o", "a", "d", "-", "p", "a", "c",
      "k", "\n">>

\* '0000'
FlushPacket == <<"0", "0", "0", "0">>

\* 'side-band-64k thin-pack ofs-delta agent=git/isomorphic-git'
Capabilities ==
    <<"s", "i", "d", "e", "-", "b", "a", "n", "d", "-", "6", "4", "k", " ",
      "t", "h", "i", "n", "-", "p", "a", "c", "k", " ", "o", "f", "s", "-",
      "d", "e", "l", "t", "a", " ", "a", "g", "e", "n", "t", "=", "g", "i",
      "t", "/", "i", "s", "o", "m", "o", "r", "p", "h", "i", "c", "-", "g",
      "i", "t">>

\* ' refs/heads/'
RefsHeadsPrefix ==
    <<" ", "r", "e", "f", "s", "/", "h", "e", "a", "d", "s", "/">>

\* a commit id as the library returns it: 40 lowercase hex characters
OidLength == 40
OidText(oid) == [i \in 1..OidLength |-> IF i = OidLength THEN HexDigits[oid + 1] ELSE "0"]

\* `${head} HEAD\0side-band-64k ... agent=git/isomorphic-git\n`
HeadLine(head) == OidText(head) \o <<" ", "H", "E", "A", "D", "NUL">> \o Capabilities \o <<"\n">>

\* `${oid} refs/heads/${branch}\n`
BranchLine(oid, branch) == OidText(oid) \o RefsHeadsPrefix \o Spell(branch) \o <<"\n">>

\* the framed branch lines, last branch first
RECURSIVE BranchLinesReversed(_, _)
BranchLinesReversed(branches, refs) ==
    IF branches = << >> THEN << >>
    ELSE BranchLinesReversed(Tail(branches), refs)
            \o FormatPacketLine(BranchLine(refs[Head(branches)].oid, Head(branches)))

\* the framed branch lines, in the order of the branches; refs[b] is what
\* git.resolveRef gives for refs/heads/b
RECURSIVE BranchLines(_, _)
BranchLines(branches, refs) ==
    IF branches = << >> THEN << >>
    ELSE FormatPacketLine(BranchLine(refs[Head(branches)].oid, Head(branches)))
            \o BranchLines(Tail(branches), refs)

\* handleInfoRefs returning what it has built when a call fails
InfoRefsPartial(head, branches, refs) ==
    [ok |-> TRUE,
     text |-> ServiceLine \o FlushPacket
                \o (IF head.ok THEN FormatPacketLine(HeadLine(head.oid)) ELSE << >>)]

\* handleInfoRefs, given what the library returns: head is the result of
\* git.resolveRef HEAD, branches the array of git.listBranches, refs the
\* result of git.resolveRef for each branch. A failed call throws, and the
\* catch rethrows "Failed to get refs"
InfoRefs(head, branches, refs) ==
    IF ~head.ok \/ \E i \in 1..Len(branches) : ~refs[branches[i]].ok
    THEN [ok |-> FALSE, text |-> << >>]
    ELSE [ok |-> TRUE,
          text |-> ServiceLine \o FlushPacket
                    \o FormatPacketLine(HeadLine(head.oid))
                    \o BranchLines(branches, refs)
                    \o FlushPacket]

\* a library call that throws
Failed == [ok |-> FALSE, oid |-> 0]

\* handleInfoRefs when git.listBranches may throw as well: listed is its
\* outcome
InfoRefsSteps(head, listed, refs) ==
    IF ~listed.ok THEN [ok |-> FALSE, text |-> << >>]
    ELSE InfoRefs(head, listed.branches, refs)

HeadsDir == GitDir \o <<"/", "refs", "/", "heads">>

\* git.resolveRef({ fs, dir: '/', ref: `refs/heads/${branch}` })
MemResolveBranch(f, branch) ==
    LET r == MemReadFile(f, HeadsDir \o <<"/">> \o branch).res
    IN  ResolveRef(r, r)

\* the arrays git.listBranches may return: the entries of .git/refs/heads
\* in some order
ListBranches(f) ==
    LET names == MemReaddir(f, HeadsDir).res.names
    IN  {order \in [1..Cardinality(names) -> names] :
            \A i, j \in 1..Cardinality(names) : i # j => order[i] # order[j]}

\* handleInfoRefs(fs) when git.listBranches returns branches
HandleInfoRefs(f, branches) ==
    InfoRefs(MemResolveHead(f), branches,
             [b \in {branches[i] : i \in 1..Len(branches)} |-> MemResolveBranch(f, b)])

\* ----------------------------------------- GitCloneService.handleUploadPack
\* The objects of a served repository, as git.readCommit and git.readTree
\* give them. A commit object names its parent and its tree; a tree object
\* lists, for each entry, the id and the type (1 blob, 2 tree); entry names
\* are not read by handleUploadPack and are left out.
BlobType == 1
TreeType == 2
BlobOids == {10, 11}
\* tree 12 = {blob 10}; tree 13 = {blob 10, blob 11};
\* tree 14 = {blob 10, tree 12}: blob 10 is shared by the tree and its subtree
TreeEntries(oid) ==
    IF oid = 12 THEN <<[oid |-> 10, type |-> BlobType]>>
    ELSE IF oid = 13 THEN <<[oid |-> 10, type |-> BlobType], [oid |-> 11, type |-> BlobType]>>
    ELSE <<[oid |-> 10, type |-> BlobType], [oid |-> 12, type |-> TreeType]>>
TreeOids == {12, 13, 14}

CommitWithTree(parent, tree) == Bytes(<<parent, tree>>)
BlobObject == Bytes(<< >>)
RECURSIVE Flatten(_)
Flatten(entries) ==
    IF entries = << >> THEN << >>
    ELSE <<Head(entries).oid, Head(entries).type>> \o Flatten(Tail(entries))
TreeObject(oid) == Bytes(Flatten(TreeEntries(oid)))

\* the object files git.commit writes for a tree and everything below it
RECURSIVE WriteTree(_, _)
RECURSIVE WriteEntries(_, _)
WriteEntries(f, entries) ==
    IF entries = << >> THEN f
    ELSE LET e == Head(entries)
             g == IF e.type = TreeType THEN WriteTree(f, e.oid)
                  ELSE MemWriteFile(f, ObjectPath(e.oid), BlobObject).st
         IN  WriteEntries(g, Tail(entries))
WriteTree(f, oid) ==
    WriteEntries(MemWriteFile(f, ObjectPath(oid), TreeObject(oid)).st, TreeEntries(oid))

\* git.readCommit({ fs, dir: '/', oid })
ReadCommit(f, oid) ==
    LET r == MemReadFile(f, ObjectPath(oid)).res
    IN  IF r.ok /\ Len(r.bytes.tail) = 2
        THEN [ok |-> TRUE, parent |-> r.bytes.tail[1], tree |-> r.bytes.tail[2]]
        ELSE [ok |-> FALSE, parent |-> NoParent, tree |-> 0]

\* git.readTree({ fs, dir: '/', oid })
ReadTree(f, oid) ==
    LET r == MemReadFile(f, ObjectPath(oid)).res
        t == r.bytes.tail
    IN  IF r.ok /\ Len(t) % 2 = 0
        THEN [ok |-> TRUE,
              tree |-> [i \in 1..(Len(t) \div 2) |-> [oid |-> t[2 * i - 1], type |-> t[2 * i]]]]
        ELSE [ok |-> FALSE, tree |-> << >>]

\* collectTreeObjects(treeOid): what it pushes to objects, in order
RECURSIVE CollectTreeObjects(_, _)
RECURSIVE CollectEntries(_, _)
CollectEntries(f, tree) ==
    IF tree = << >> THEN [ok |-> TRUE, objects |-> << >>]
    ELSE LET entry == Head(tree)
             sub == IF entry.type = TreeType THEN CollectTreeObjects(f, entry.oid)
                    ELSE [ok |-> TRUE, objects |-> << >>]
             rest == CollectEntries(f, Tail(tree))
         IN  IF sub.ok /\ rest.ok
             THEN [ok |-> TRUE, objects |-> <<entry.oid>> \o sub.objects \o rest.objects]
             ELSE [ok |-> FALSE, objects |-> << >>]
CollectTreeObjects(f, treeOid) ==
    LET t == ReadTree(f, treeOid)
        below == CollectEntries(f, t.tree)
    IN  IF t.ok /\ below.ok
        THEN [ok |-> TRUE, objects |-> <<treeOid>> \o below.objects]
        ELSE [ok |-> FALSE, objects |-> << >>]

\* handleUploadPack(fs): the array oids it passes to git.packObjects; a
\* failed library call throws "Failed to generate pack"
HandleUploadPack(f) ==
    LET head == MemResolveHead(f)
        commit == ReadCommit(f, head.oid)
        collected == CollectTreeObjects(f, commit.tree)
    IN  IF head.ok /\ commit.ok /\ collected.ok
        THEN [ok |-> TRUE, objects |-> <<head.oid, commit.tree>> \o collected.objects]
        ELSE [ok |-> FALSE, objects |-> << >>]

\* the packfiles git.packObjects may return
MaxPackLen == 2
PackBytes == {0, 1, 2}
Packs == UNION {[1..k -> PackBytes] : k \in 0..MaxPackLen}

\* the outcomes of git.packObjects: it throws, it returns an object with no
\* packfile, or it returns { packfile }
PackThrows == [ok |-> FALSE, hasPack |-> FALSE, packfile |-> << >>]
PackMissing == [ok |-> TRUE, hasPack |-> FALSE, packfile |-> << >>]
PackOf(P) == [ok |-> TRUE, hasPack |-> TRUE, packfile |-> P]
PackResults == {PackThrows, PackMissing} \cup {PackOf(P) : P \in Packs}

\* Uint8Array.prototype.set(source, offset)
SetAt(result, source, offset) ==
    [i \in 1..Len(result) |->
        IF offset < i /\ i <= offset + Len(source) THEN source[i - offset] ELSE result[i]]

\* new Uint8Array(length)
ZeroBytes(length) == [i \in 1..length |-> 0]

\* wrapInSideband with the progress channel (2) in the header
WrapInSidebandProgress(packfile) ==
    SetAt(SetAt(ZeroBytes(1 + Len(packfile)), <<2>>, 0), packfile, 1)

\* wrapInSideband(packfile): header [1], then the packfile
WrapInSideband(packfile) ==
    LET header == <<1>>
        result == ZeroBytes(Len(header) + Len(packfile))
    IN  SetAt(SetAt(result, header, 0), packfile, Len(header))

\* handleUploadPack(fs) when git.packObjects ends as packResult: the bytes
\* returned, or the throw of "Failed to generate pack"
UploadPack(f, packResult) ==
    IF HandleUploadPack(f).ok /\ packResult.ok /\ packResult.hasPack
    THEN [ok |-> TRUE, bytes |-> WrapInSideband(packResult.packfile)]
    ELSE [ok |-> FALSE, bytes |-> << >>]

\* ------------------------------------------------------ served repositories
\* The repositories handleInfoRefs and handleUploadPack are given: files is
\* a MemFS after git.init, grown by commits on main and by branches.
MaxCommits == 3
BranchNames == {<<"b">>, <<"U+00E9">>}

\* the commits of main, newest first
MainCommits(f) == CommitChain(f, MemResolveMain(f).oid, MaxCommits + 1)

ServeInit ==
    /\ backend = "MemFS"
    /\ files = GitInit(<< >>)
    /\ table = SqlInit(<< >>).st
    /\ BuildIdle

\* the repository after git.commit of a work tree whose root tree is tree
CommitOn(f, tree) ==
    LET parent == IF MemResolveMain(f).ok THEN MemResolveMain(f).oid ELSE NoParent
        oid == parent + 1
        withTree == WriteTree(f, tree)
        withCommit == MemWriteFile(withTree, ObjectPath(oid), CommitWithTree(parent, tree)).st
    IN  GitWriteRef(withCommit, MainRef, oid)

\* git.commit of a work tree whose root tree is tree
ServeCommit ==
    /\ Cardinality(MainCommits(files)) < MaxCommits
    /\ \E tree \in TreeOids : files' = CommitOn(files, tree)
    /\ UNCHANGED <<otherVars, backend, table, buildVars>>

\* git.branch: a ref file under refs/heads naming a commit of main
ServeBranch ==
    /\ \E name \in BranchNames, oid \in MainCommits(files) :
        files' = MemWriteFile(files, HeadsDir \o <<"/">> \o name, RefContent(oid)).st
    /\ UNCHANGED <<otherVars, backend, table, buildVars>>

\* a handleInfoRefs call: it reads the repository and changes nothing
ServeInfoRefs ==
    /\ \E branches \in ListBranches(files) : HandleInfoRefs(files, branches).ok
    /\ UNCHANGED vars

\* a handleUploadPack call: it reads the repository and changes nothing
ServeUploadPack ==
    /\ \E packResult \in PackResults : UploadPack(files, packResult).ok
    /\ UNCHANGED vars

ServeNext ==
    \/ ServeCommit
    \/ ServeBranch
    \/ ServeInfoRefs
    \/ ServeUploadPack

ServeSpec == ServeInit /\ [][ServeNext]_vars

\* -------------------------------------- handleUploadPack, one await at a time
\* The object collection of handleUploadPack as the steps between its awaits.
\* files is the repository, events the array objects, stack the calls of
\* collectTreeObjects in progress: the tree of the call, whether git.readTree
\* has returned, and the entries the for loop has still to visit.
RECURSIVE RepoOf(_)
RepoOf(trees) ==
    IF trees = << >> THEN GitInit(<< >>)
    ELSE CommitOn(RepoOf(SubSeq(trees, 1, Len(trees) - 1)), trees[Len(trees)])

\* histories of up to MaxCommits commits, each with any of the trees
WalkRepos == {RepoOf(trees) : trees \in UNION {[1..k -> TreeOids] : k \in 0..MaxCommits}}

Call(treeOid) == [treeOid |-> treeOid, entered |-> FALSE, entries |-> << >>]

\* where the collection goes when a call of collectTreeObjects returns and
\* the outermost call never counts as finished
WalkNeverDone(rest) == "collectTreeObjects"

\* where the collection goes when a call of collectTreeObjects returns
WalkDone(rest) == IF rest = << >> THEN "git.packObjects" ELSE "collectTreeObjects"

WalkInit ==
    /\ backend = "MemFS"
    /\ files \in WalkRepos
    /\ table = SqlInit(<< >>).st
    /\ pc = "git.resolveRef"
    /\ templateDetails = NoTemplate
    /\ stack = << >>
    /\ agentHeadOid = 0
    /\ events = << >>
    /\ OthersIdle

\* const head = await git.resolveRef(...)
WalkResolveRef ==
    /\ pc = "git.resolveRef"
    /\ LET head == MemResolveHead(files)
       IN  IF head.ok THEN /\ pc' = "git.readCommit"
                           /\ agentHeadOid' = head.oid
                      ELSE /\ pc' = "failed"
                           /\ UNCHANGED agentHeadOid
    /\ UNCHANGED <<otherVars, fsVars, templateDetails, stack, events>>

\* const { commit } = await git.readCommit(...); objects = [head, commit.tree];
\* then the call collectTreeObjects(commit.tree) up to its first await
WalkReadCommit ==
    /\ pc = "git.readCommit"
    /\ LET commit == ReadCommit(files, agentHeadOid)
       IN  IF commit.ok THEN /\ pc' = "collectTreeObjects"
                             /\ events' = <<agentHeadOid, commit.tree>>
                             /\ stack' = <<Call(commit.tree)>>
                        ELSE /\ pc' = "failed"
                             /\ UNCHANGED <<events, stack>>
    /\ UNCHANGED <<otherVars, fsVars, templateDetails, agentHeadOid>>

\* objects.push(treeOid); const { tree } = await git.readTree(...)
WalkReadTree ==
    /\ pc = "collectTreeObjects"
    /\ stack # << >>
    /\ ~Head(stack).entered
    /\ LET t == ReadTree(files, Head(stack).treeOid)
       IN  IF t.ok THEN /\ events' = Append(events, Head(stack).treeOid)
                        /\ stack' = <<[Head(stack) EXCEPT !.entered = TRUE, !.entries = t.tree]>>
                                        \o Tail(stack)
                        /\ UNCHANGED pc
                   ELSE /\ pc' = "failed"
                        /\ events' = Append(events, Head(stack).treeOid)
                        /\ UNCHANGED stack
    /\ UNCHANGED <<otherVars, fsVars, templateDetails, agentHeadOid>>

\* one turn of for (const entry of tree): push the id, and call
\* collectTreeObjects for a subtree
WalkEntry ==
    /\ pc = "collectTreeObjects"
    /\ stack # << >>
    /\ Head(stack).entered
    /\ Head(stack).entries # << >>
    /\ LET entry == Head(Head(stack).entries)
           rest == <<[Head(stack) EXCEPT !.entries = Tail(@)]>> \o Tail(stack)
       IN  /\ events' = Append(events, entry.oid)
           /\ stack' = IF entry.type = TreeType THEN <<Call(entry.oid)>> \o rest ELSE rest
    /\ UNCHANGED <<otherVars, fsVars, pc, templateDetails, agentHeadOid>>

\* the for loop is over: the call of collectTreeObjects returns
WalkReturn ==
    /\ pc = "collectTreeObjects"
    /\ stack # << >>
    /\ Head(stack).entered
    /\ Head(stack).entries = << >>
    /\ stack' = Tail(stack)
    /\ pc' = WalkDone(Tail(stack))
    /\ UNCHANGED <<otherVars, fsVars, templateDetails, agentHeadOid, events>>

WalkNext ==
    \/ WalkResolveRef
    \/ WalkReadCommit
    \/ WalkReadTree
    \/ WalkEntry
    \/ WalkReturn

\* a continuation that is ready to run is run by the event loop
WalkSpec == WalkInit /\ [][WalkNext]_vars /\ WF_vars(WalkNext)

\* ------------------------------- buildRepository beside a session commit
\* GitVersionControl.commit on the session store, one await at a time, while
\* a buildRepository call copies the history of the same store. peer.pc is
\* the position of the commit.
RaceTemplate == [isNull |-> FALSE, allFiles |-> (<<"a">> :> <<"a">>)]

\* the session store after a first commit, 2, of the tree 12
RaceSession ==
    LET objects ==
            SqlWriteFile(
                SqlWriteFile(
                    SqlWriteFile(SessionInit, ObjectPath(10), BlobObject).st,
                    ObjectPath(12), TreeObject(12)).st,
                ObjectPath(2), CommitWithTree(NoParent, 12)).st
    IN  SqlWriteFile(objects, MainRef, RefContent(2)).st

Committing(position) == [pc |-> position]

RaceInit ==
    /\ backend = "both"
    /\ files = NewMemFS
    /\ table = RaceSession
    /\ pc = "git.init"
    /\ templateDetails = RaceTemplate
    /\ stack = << >>
    /\ agentHeadOid = 0
    /\ events = << >>
    /\ peer = Committing("git.add")
    /\ http = NoRequest

CommitFrame == UNCHANGED <<backend, files, buildVars, http>>

\* await this.fs.writeFile(file.path, file.content); await git.add(...): the
\* work file and its blob object
CommitGitAdd ==
    /\ peer.pc = "git.add"
    /\ table' = SqlWriteFile(SqlWriteFile(table, <<"b">>, TextEncode(<<"b">>)).st,
                             ObjectPath(11), BlobObject).st
    /\ peer' = Committing("git.commit.tree")
    /\ CommitFrame

\* git.commit writes the tree of the index
CommitWriteTree ==
    /\ peer.pc = "git.commit.tree"
    /\ table' = SqlWriteFile(table, ObjectPath(13), TreeObject(13)).st
    /\ peer' = Committing("git.commit.object")
    /\ CommitFrame

\* git.commit writes the commit object, whose parent is the commit HEAD
\* resolves to
CommitWriteObject ==
    /\ peer.pc = "git.commit.object"
    /\ table' = SqlWriteFile(table, ObjectPath(3),
                             CommitWithTree(SqlResolveHead(table).oid, 13)).st
    /\ peer' = Committing("git.commit.ref")
    /\ CommitFrame

\* git.commit moves the branch to the new commit
CommitWriteRef ==
    /\ peer.pc = "git.commit.ref"
    /\ table' = SqlWriteFile(table, MainRef, RefContent(3)).st
    /\ peer' = Committing("committed")
    /\ CommitFrame

RaceNext ==
    \/ BuildNext
    \/ CommitGitAdd
    \/ CommitWriteTree
    \/ CommitWriteObject
    \/ CommitWriteRef

RaceSpec == RaceInit /\ [][RaceNext]_vars

\* ------------------------------------------------------ git HTTP handlers
\* handleInfoRefs and handleUploadPack of git-protocol.ts, one await at a
\* time. http holds the request, what the collaborators answer, and the
\* response; events holds the calls made beyond the access check.
Handlers == {"info/refs", "git-upload-pack"}

\* appService.getAppDetails(appId): null, or the app's row
NoApp == [found |-> FALSE, visibility |-> "", userId |-> ""]
Apps == {NoApp} \cup [found : {TRUE}, visibility : {"public", "private"}, userId : {"owner"}]

\* strings a credential is made of; a token is a string without ':'
OwnerJwt == <<"owner-jwt">>
OtherJwt == <<"other-jwt">>
BadJwt == <<"bad-jwt">>
UserName == <<"git">>

\* request.headers.get('Authorization'): null, or a scheme followed by the
\* rest of the header. For the Basic scheme text is what atob gives for the
\* rest, and base64 tells whether atob accepts it
NoHeader == [scheme |-> "null", text |-> << >>, base64 |-> TRUE]
AuthHeaders ==
    {NoHeader}
    \cup [scheme : {"Bearer ", "bearer ", "Digest "}, text : {OwnerJwt, OtherJwt, BadJwt, << >>},
          base64 : {TRUE}]
    \cup [scheme : {"Basic "},
          text : {UserName \o <<":">> \o OwnerJwt, OwnerJwt, OwnerJwt \o <<":">>,
                  UserName \o <<":">> \o OtherJwt, UserName \o <<":">> \o BadJwt,
                  OwnerJwt \o <<":">> \o BadJwt, UserName, << >>},
          base64 : {TRUE}]
    \cup {[scheme |-> "Basic ", text |-> << >>, base64 |-> FALSE]}

\* decoded.split(':')
RECURSIVE SplitColonFrom(_, _)
SplitColonFrom(str, cur) ==
    IF Len(str) = 0 THEN <<cur>>
    ELSE IF Head(str) = ":" THEN <<cur>> \o SplitColonFrom(Tail(str), << >>)
    ELSE SplitColonFrom(Tail(str), Append(cur, Head(str)))

SplitColon(str) == SplitColonFrom(str, << >>)

\* const [username, password] = decoded.split(':'); token = password || username
BasicToken(decoded) ==
    LET fields == SplitColon(decoded)
        username == fields[1]
        password == IF Len(fields) >= 2 THEN fields[2] ELSE << >>
    IN  IF password # << >> THEN password ELSE username

\* jwtUtils.verifyToken(token): the payload of a token that verifies, or null
NoPayload == [verified |-> FALSE, sub |-> ""]
VerifyToken(token) ==
    IF token = OwnerJwt THEN [verified |-> TRUE, sub |-> "owner"]
    ELSE IF token = OtherJwt THEN [verified |-> TRUE, sub |-> "other"]
    ELSE NoPayload

Access(b) == [threw |-> FALSE, hasAccess |-> b]
AccessThrows == [threw |-> TRUE, hasAccess |-> FALSE]

VerifyGitAccess(app, header) ==
    LET token ==
            IF header.scheme = "Bearer " THEN header.text
            ELSE IF header.scheme = "Basic " THEN BasicToken(header.text)
            ELSE << >>
    IN  IF ~app.found THEN Access(FALSE)
        ELSE IF app.visibility = "public" THEN Access(TRUE)
        ELSE IF header.scheme = "Basic " /\ ~header.base64 THEN AccessThrows
        ELSE IF token = << >> THEN Access(FALSE)
        ELSE IF ~VerifyToken(token).verified THEN Access(FALSE)
        ELSE Access(VerifyToken(token).sub = app.userId)

\* getAgentStub and agentStub.isInitialized(): no stub, a stub of an agent
\* that is not initialized, or one of an initialized agent
Agents == {"null", "uninitialized", "initialized"}

\* '001e# service=git-upload-pack\n0000'
EmptyAdvertisement ==
    <<"0", "0", "1", "e", "#", " ", "s", "e", "r", "v", "i", "c", "e", "=",
      "g", "i", "t", "-", "u", "p", "l", "o", "a", "d", "-", "p", "a", "c",
      "k", "\n", "0", "0", "0", "0">>

Request(handler, app, header, agent, hasCommits) ==
    [app |-> app, handler |-> handler, header |-> header, agent |-> agent,
     hasCommits |-> hasCommits, status |-> 0, body |-> << >>]

\* return new Response(body, { status })
Respond(status, body) ==
    /\ http' = [http EXCEPT !.status = status, !.body = body]
    /\ pc' = "responded"

HttpInit ==
    /\ backend = "MemFS"
    /\ files = << >>
    /\ table = SqlInit(<< >>).st
    /\ pc = "verifyGitAccess"
    /\ templateDetails = NoTemplate
    /\ stack = << >>
    /\ agentHeadOid = 0
    /\ events = << >>
    /\ peer = NoPeer
    /\ http \in {Request(h, a, hd, ag, c) :
                    h \in Handlers, a \in Apps, hd \in AuthHeaders, ag \in Agents,
                    c \in BOOLEAN}

HttpFrame == UNCHANGED <<backend, files, table, templateDetails, stack, agentHeadOid, peer>>

\* const { hasAccess } = await verifyGitAccess(request, env, appId)
HttpVerifyGitAccess ==
    /\ pc = "verifyGitAccess"
    /\ LET access == VerifyGitAccess(http.app, http.header)
       IN  IF access.threw THEN Respond(500, <<"Internal server error">>)
           ELSE IF ~access.hasAccess THEN Respond(404, <<"Repository not found">>)
           ELSE pc' = "getAgentStub" /\ UNCHANGED http
    /\ UNCHANGED events
    /\ HttpFrame

\* if (!agentStub || !(await agentStub.isInitialized()))
HttpGetAgentStub ==
    /\ pc = "getAgentStub"
    /\ IF http.agent = "null" THEN
            /\ events' = Append(events, "getAgentStub")
            /\ Respond(404, <<"Repository not found">>)
       ELSE IF http.agent = "uninitialized" THEN
            /\ events' = events \o <<"getAgentStub", "isInitialized">>
            /\ Respond(404, <<"Repository not found">>)
       ELSE /\ events' = events \o <<"getAgentStub", "isInitialized">>
            /\ pc' = "exportGitObjects"
            /\ UNCHANGED http
    /\ HttpFrame

\* exportGitObjects that is followed by the build whatever hasCommits is
HttpExportNoCommitCheck ==
    /\ pc = "exportGitObjects"
    /\ events' = Append(events, "exportGitObjects")
    /\ pc' = "buildRepository"
    /\ UNCHANGED http
    /\ HttpFrame

\* const { hasCommits, ... } = await agentStub.exportGitObjects(); if (!hasCommits)
HttpExportGitObjects ==
    /\ pc = "exportGitObjects"
    /\ events' = Append(events, "exportGitObjects")
    /\ IF ~http.hasCommits THEN
            IF http.handler = "info/refs" THEN Respond(200, EmptyAdvertisement)
            ELSE Respond(404, <<"No commits to pack">>)
       ELSE pc' = "buildRepository" /\ UNCHANGED http
    /\ HttpFrame

\* const repoFS = await GitCloneService.buildRepository(...), which returns
\* or throws
HttpBuildRepository ==
    /\ pc = "buildRepository"
    /\ events' = Append(events, "buildRepository")
    /\ \E throws \in BOOLEAN :
        IF throws THEN Respond(500, <<"Internal server error">>)
        ELSE pc' = "serve" /\ UNCHANGED http
    /\ HttpFrame

\* await GitCloneService.handleInfoRefs(repoFS) or handleUploadPack(repoFS),
\* which returns or throws, and the response made of what it returns
HttpServe ==
    /\ pc = "serve"
    /\ events' = Append(events,
            IF http.handler = "info/refs" THEN "handleInfoRefs" ELSE "handleUploadPack")
    /\ \E throws \in BOOLEAN :
        IF throws THEN Respond(500, <<"Internal server error">>)
        ELSE Respond(200, IF http.handler = "info/refs" THEN <<"advertisement">>
                          ELSE <<"packfile">>)
    /\ HttpFrame

HttpNext ==
    \/ HttpVerifyGitAccess
    \/ HttpGetAgentStub
    \/ HttpExportGitObjects
    \/ HttpBuildRepository
    \/ HttpServe

HttpSpec == HttpInit /\ [][HttpNext]_vars

\* ------------------------------------------------------------- properties
IsFile(t, k) == k \in DOMAIN t /\ t[k].is_dir = 0
IsDir(t, k) == k \in DOMAIN t /\ t[k].is_dir = 1

\* contents with bytes above 127 and with one, two and three bytes in the
\* last base64 quantum
HighByteDatas == [blocks : {0}, tail : {<<255>>, <<0, 255>>, <<255, 0, 97>>}]

\* C1: round trip. In every reachable state of either store, a
\* writeFile(path, bytes) that succeeds, followed at once by readFile(path),
\* returns exactly the bytes written, the empty content included.
C1_RoundTrip ==
    \A p \in Paths, d \in Datas \cup HighByteDatas :
        /\ OnMem =>
            LET w == MemWriteFile(files, p, d)
            IN  w.res.ok => MemReadFile(w.st, p).res = OkBytes(d)
        /\ OnSql =>
            LET w == SqlWriteFile(table, p, d)
            IN  w.res.ok => SqlReadFile(w.st, p).res = OkBytes(d)

\* both stores hold a non-empty content that was written through a path with
\* a leading separator, and read it back
C1_Witness ==
    /\ backend = "both"
    /\ \E p \in Paths, d \in Datas :
        /\ ByteLength(d) > 0
        /\ StartsWith(p, <<"/">>)
        /\ MemReadFile(files, p).res = OkBytes(d)
        /\ SqlReadFile(table, p).res = OkBytes(d)

\* the proper ancestors of a path, the root apart: "a" and "a/b" for "/a/b/c"
ProperAncestors(p) ==
    LET parts == Split(StripBoth(p))
    IN  {Join(SubSeq(parts, 1, i)) : i \in 1..(Len(parts) - 1)}

\* C2: after any successful writeFile(p, bytes), in either store, stat of every
\* proper ancestor of p reports a directory, whatever was stored before.
C2_Ancestors ==
    \A p \in Paths, d \in Datas :
        /\ OnMem =>
            LET w == MemWriteFile(files, p, d)
            IN  w.res.ok =>
                    \A q \in ProperAncestors(p) : MemStat(w.st, q).res.kind = "dir"
        /\ OnSql =>
            LET w == SqlWriteFile(table, p, d)
            IN  w.res.ok =>
                    \A q \in ProperAncestors(p) : SqlStat(w.st, q).res.kind = "dir"

\* C3: in every reachable state of the SqliteFS, the parent path of every row
\* but the root is itself a row, and a directory.
C3_ParentChain ==
    OnSql =>
        \A k \in DOMAIN table \ {<<>>} : IsDir(table, table[k].parent_path)

\* the spellings of the root path
RootPaths == {p \in Paths : StripBoth(p) = <<>>}

\* C4: in every reachable state of either store, stat of the root path reports
\* a directory, and no writeFile, unlink or rmdir addressed to the root
\* succeeds.
C4_Root ==
    \A r \in RootPaths :
        /\ OnMem =>
            /\ MemStat(files, r).res.kind = "dir"
            /\ \A d \in Datas : ~MemWriteFile(files, r, d).res.ok
            /\ ~MemUnlink(files, r).res.ok
            /\ ~MemRmdir(files, r).res.ok
        /\ OnSql =>
            /\ SqlStat(table, r).res.kind = "dir"
            /\ \A d \in Datas : ~SqlWriteFile(table, r, d).res.ok
            /\ ~SqlUnlink(table, r).res.ok
            /\ ~SqlRmdir(table, r).res.ok

\* C5: two path strings that differ only in their leading and trailing
\* separators address the same entry: every operation has the same outcome,
\* and leaves the same store, under either spelling.
C5_CanonicalKeys ==
    \A p, q \in Paths :
        StripBoth(p) = StripBoth(q) =>
            /\ OnMem =>
                /\ \A d \in Datas : MemWriteFile(files, p, d) = MemWriteFile(files, q, d)
                /\ MemReadFile(files, p) = MemReadFile(files, q)
                /\ MemStat(files, p) = MemStat(files, q)
                /\ MemUnlink(files, p) = MemUnlink(files, q)
                /\ MemReaddir(files, p) = MemReaddir(files, q)
                /\ MemMkdir(files, p) = MemMkdir(files, q)
                /\ MemRmdir(files, p) = MemRmdir(files, q)
            /\ OnSql =>
                /\ \A d \in Datas : SqlWriteFile(table, p, d) = SqlWriteFile(table, q, d)
                /\ SqlReadFile(table, p) = SqlReadFile(table, q)
                /\ SqlStat(table, p) = SqlStat(table, q)
                /\ SqlUnlink(table, p) = SqlUnlink(table, q)
                /\ SqlReaddir(table, p) = SqlReaddir(table, q)
                /\ SqlMkdir(table, p) = SqlMkdir(table, q)
                /\ SqlRmdir(table, p) = SqlRmdir(table, q)

\* the same returned kind, bytes, child set or flag, or an error of the same
\* kind (the size stat reports is an approximation on the SqliteFS)
SameOutcome(m, s) ==
    /\ m.ok = s.ok
    /\ m.code = s.code
    /\ m.kind = s.kind
    /\ m.bytes = s.bytes
    /\ m.names = s.names
    /\ m.flag = s.flag

\* C6: with a MemFS and a SqliteFS driven side by side from fresh stores, each
\* operation of the filesystem interface has the same outcome on both.
C6_BackendEquivalence ==
    backend = "both" =>
        \A p \in Paths :
            /\ \A d \in Datas :
                SameOutcome(MemWriteFile(files, p, d).res, SqlWriteFile(table, p, d).res)
            /\ SameOutcome(MemReadFile(files, p).res, SqlReadFile(table, p).res)
            /\ SameOutcome(MemUnlink(files, p).res, SqlUnlink(table, p).res)
            /\ SameOutcome(MemReaddir(files, p).res, SqlReaddir(table, p).res)
            /\ SameOutcome(MemMkdir(files, p).res, SqlMkdir(table, p).res)
            /\ SameOutcome(MemRmdir(files, p).res, SqlRmdir(table, p).res)
            /\ SameOutcome(MemStat(files, p).res, SqlStat(table, p).res)
            /\ SameOutcome(MemExists(files, p).res, SqlExists(table, p).res)

\* C7: SqliteFS.writeFile on a path that denotes a directory fails with
\* EISDIR, and the path still denotes a directory afterwards.
C7_WriteOnDirectory ==
    OnSql =>
        \A p \in Paths, d \in Datas :
            SqlStat(table, p).res.kind = "dir" =>
                LET w == SqlWriteFile(table, p, d)
                IN  /\ w.res.code = "EISDIR"
                    /\ SqlStat(w.st, p).res.kind = "dir"

\* C8: a SqliteFS.writeFile whose content's encoded size exceeds the
\* configured limit is rejected, and readFile of the path fails with ENOENT
\* afterwards, whatever the store held before.
C8_SizeCeiling ==
    OnSql =>
        \A p \in Paths, d \in Datas :
            TextLength(Encode(d)) > MAX_OBJECT_SIZE =>
                LET w == SqlWriteFile(table, p, d)
                IN  /\ ~w.res.ok
                    /\ SqlReadFile(w.st, p).res.code = "ENOENT"

C9_Outcome ==
    OnSql =>
        \A p \in Paths :
            LET n == StripLeading(p)
                r == SqlReadFile(table, p)
            IN  /\ r.st = table
                /\ r.res.code = "ENOENT" <=> n \notin DOMAIN table
                /\ r.res.code = "EISDIR" <=> IsDir(table, n)
                /\ r.res.ok <=> IsFile(table, n)

\* st is the table a call leaves; wrote says the call was a successful
\* writeFile of data to key: every file row of st either is that key and reads
\* as data, or was a file before the call and reads as it did
C9_After(st, wrote, key, data) ==
    \A k \in DOMAIN st :
        IsFile(st, k) =>
            IF wrote /\ key = k
            THEN SqlReadFile(st, k).res = OkBytes(data)
            ELSE /\ IsFile(table, k)
                 /\ SqlReadFile(st, k).res = SqlReadFile(table, k).res

C9_LatestWrite ==
    OnSql =>
        /\ \A p \in Paths, d \in Datas :
            LET w == SqlWriteFile(table, p, d)
            IN  C9_After(w.st, w.res.ok, StripLeading(p), d)
        /\ \A p \in Paths, g \in Targets :
            LET w == SqlSymlink(table, g, p)
            IN  C9_After(w.st, w.res.ok, StripLeading(p), TextEncode(g))
        /\ \A p \in Paths :
            /\ C9_After(SqlUnlink(table, p).st, FALSE, <<>>, EmptyData)
            /\ C9_After(SqlMkdir(table, p).st, FALSE, <<>>, EmptyData)
            /\ C9_After(SqlRmdir(table, p).st, FALSE, <<>>, EmptyData)
        /\ C9_After(SqlInit(table).st, FALSE, <<>>, EmptyData)

\* C9: SqliteFS.readFile(path) fails with ENOENT exactly when no row exists at
\* the path (leading separators removed), with EISDIR exactly when the row is
\* a directory, and otherwise returns the bytes of the most recent successful
\* writeFile to that path: after any call from any reachable state, a file
\* row either has just been written by a successful writeFile and reads as
\* the bytes written, or was a file before the call and reads as it did.
C9_ReadFile == C9_Outcome /\ C9_LatestWrite

\* the SqliteFS holds a file with a non-empty content below a directory:
\* readFile returns the content for the one, EISDIR for the other and ENOENT
\* for a third path
C9_Witness ==
    /\ backend = "SqliteFS"
    /\ \E p, q, r \in Paths :
        /\ SqlReadFile(table, p).res.ok
        /\ ByteLength(SqlReadFile(table, p).res.bytes) > 0
        /\ SqlReadFile(table, q).res.code = "EISDIR"
        /\ StripLeading(q) # <<>>
        /\ SqlReadFile(table, r).res.code = "ENOENT"

\* C10: in every reachable state, SqliteFS.unlink(path) fails with ENOENT when
\* the path is absent and with EPERM when it is a directory; it removes no
\* directory row (so no sequence of unlink calls does); when it succeeds the
\* path held a file, and the path is absent afterwards.
C10_Unlink ==
    OnSql =>
        \A p \in Paths :
            LET n == StripLeading(p)
                u == SqlUnlink(table, p)
            IN  /\ n \notin DOMAIN table => u.res.code = "ENOENT" /\ u.st = table
                /\ IsDir(table, n) => u.res.code = "EPERM" /\ u.st = table
                /\ \A k \in DOMAIN table : IsDir(table, k) => IsDir(u.st, k)
                /\ u.res.ok =>
                    /\ IsFile(table, n)
                    /\ SqlStat(u.st, p).res.code = "ENOENT"
                    /\ SqlReadFile(u.st, p).res.code = "ENOENT"

\* the SqliteFS holds a file below a directory: unlink of the file succeeds,
\* unlink of the directory is refused
C10_Witness ==
    /\ backend = "SqliteFS"
    /\ \E p, q \in Paths :
        /\ SqlUnlink(table, p).res.ok
        /\ SqlUnlink(table, q).res.code = "EPERM"
        /\ StripLeading(q) # <<>>

\* the last segment of a key, and the key without its last segment
Basename(k) == Split(k)[Len(Split(k))]
Dirname(k) == Join(SubSeq(Split(k), 1, Len(Split(k)) - 1))

\* the entries of a MemFS: its file keys and the directories they imply
MemEntries(f) == DOMAIN f \cup UNION {ProperAncestors(k) : k \in DOMAIN f}

\* C11: for every existing directory d of either store, the root included,
\* readdir(d) returns exactly the basenames of the entries whose parent is d,
\* each once, with no empty name and no entry for d itself.
C11_ReaddirExact ==
    \A p \in Paths :
        /\ OnMem =>
            LET n == StripBoth(p)
                r == MemReaddir(files, p).res
            IN  (n = <<>> \/ MemStat(files, p).res.kind = "dir") =>
                    /\ r.ok
                    /\ r.names = {Basename(k) : k \in {e \in MemEntries(files) \ {n} : Dirname(e) = n}}
                    /\ <<>> \notin r.names
        /\ OnSql =>
            LET n == StripBoth(p)
                r == SqlReaddir(table, p).res
            IN  IsDir(table, n) =>
                    /\ r.ok
                    /\ r.names = {Basename(k) : k \in {e \in DOMAIN table \ {n} : Dirname(e) = n}}
                    /\ <<>> \notin r.names
                    /\ SqlReaddirLength(table, p) = Cardinality(r.names)

\* C12: readdir(path) fails with ENOENT in both stores whenever the path does
\* not exist as a directory (it is absent, or it is a file), the root apart,
\* which always exists.
C12_ReaddirNotFound ==
    \A p \in Paths :
        /\ (OnMem /\ StripBoth(p) # <<>> /\ MemStat(files, p).res.kind # "dir") =>
                MemReaddir(files, p).res.code = "ENOENT"
        /\ (OnSql /\ ~IsDir(table, StripBoth(p))) =>
                SqlReaddir(table, p).res.code = "ENOENT"

\* C13: SqliteFS.mkdir(path), called when a directory already exists at the
\* path, succeeds and leaves every row of the table unchanged.
C13_MkdirIdempotent ==
    OnSql =>
        \A p \in Paths :
            IsDir(table, StripBoth(p)) =>
                LET m == SqlMkdir(table, p)
                IN  m.res.ok /\ m.st = table

Descendants(t, n) == {k \in DOMAIN t : StartsWith(k, n \o <<"/">>)}

\* C15: SqliteFS.rmdir(path) always fails on the root; on any other path it
\* fails with ENOENT when the path is absent, ENOTDIR when it is a file and
\* ENOTEMPTY when a row exists below it, and it succeeds exactly when the
\* path is a directory with no row below it, removing that one row only.
C15_Rmdir ==
    OnSql =>
        \A p \in CasePaths :
            LET n == StripBoth(p)
                r == SqlRmdir(table, p)
            IN  /\ n = <<>> => ~r.res.ok /\ r.st = table
                /\ (n # <<>> /\ n \notin DOMAIN table) =>
                        r.res.code = "ENOENT" /\ r.st = table
                /\ (n # <<>> /\ IsFile(table, n)) =>
                        r.res.code = "ENOTDIR" /\ r.st = table
                /\ (n # <<>> /\ IsDir(table, n) /\ Descendants(table, n) # {}) =>
                        r.res.code = "ENOTEMPTY" /\ r.st = table
                /\ (n # <<>> /\ IsDir(table, n) /\ Descendants(table, n) = {}) =>
                        r.res.ok /\ r.st = DeleteRow(table, n)

\* link targets: the targets the model stores, the empty one and a path
LinkTargets == Targets \cup {<<>>, <<"a", "/", "b">>}

\* C16: on the SqliteFS, a symlink(target, path) that succeeds is followed by
\* readlink(path) returning target, readFile(path) returning the bytes of
\* target, and lstat(path) reporting a file.
C16_SymlinkIsFile ==
    OnSql =>
        \A p \in Paths, g \in LinkTargets :
            LET w == SqlSymlink(table, g, p)
            IN  w.res.ok =>
                    /\ SqlReadlink(w.st, p).res = OkText(g)
                    /\ SqlReadFile(w.st, p).res = OkBytes(TextEncode(g))
                    /\ SqlLstat(w.st, p).res.ok
                    /\ SqlLstat(w.st, p).res.kind = "file"

\* the SqliteFS holds a link: readlink returns a target, lstat reports a file
C16_Witness ==
    /\ backend = "SqliteFS"
    /\ \E p \in Paths, g \in Targets :
        /\ SqlReadlink(table, p).res = OkText(g)
        /\ SqlLstat(table, p).res.kind = "file"

\* the error codes of the taxonomy: NotFound, IsDirectory, NotDirectory,
\* AlreadyExists, NotEmpty, PermissionDenied, SizeExceeded
TaxonomyCodes == {"ENOENT", "EISDIR", "ENOTDIR", "EEXIST", "ENOTEMPTY", "EPERM", "EFBIG"}

HasKind(res) == res.ok \/ res.code \in TaxonomyCodes

\* C17: every failure of a SqliteFS operation (writeFile, readFile, unlink,
\* readdir, mkdir, rmdir, stat) carries one of the taxonomy's error codes; no
\* operation fails with an error that has no code.
C17_ErrorKinds ==
    OnSql =>
        \A p \in Paths :
            /\ \A d \in Datas : HasKind(SqlWriteFile(table, p, d).res)
            /\ HasKind(SqlReadFile(table, p).res)
            /\ HasKind(SqlUnlink(table, p).res)
            /\ HasKind(SqlReaddir(table, p).res)
            /\ HasKind(SqlMkdir(table, p).res)
            /\ HasKind(SqlRmdir(table, p).res)
            /\ HasKind(SqlStat(table, p).res)

\* C18: SqliteFS.init(), called once or twice more on any reachable store,
\* succeeds, leaves every row as it was, and the store holds exactly one root
\* row, a directory; on an empty database it creates that row and no other.
C18_InitIdempotent ==
    OnSql =>
        LET once == SqlInit(table)
            twice == SqlInit(once.st)
        IN  /\ once.res.ok /\ twice.res.ok
            /\ once.st = table
            /\ twice.st = table
            /\ IsDir(once.st, <<>>)
            /\ {k \in DOMAIN once.st : StripBoth(k) = <<>>} = {<<>>}
            /\ DOMAIN SqlInit(<< >>).st = {<<>>}
            /\ IsDir(SqlInit(<< >>).st, <<>>)

\* the SqliteFS holds a file below a directory when init is called again
C18_Witness ==
    /\ backend = "SqliteFS"
    /\ \E k, j \in DOMAIN table :
        /\ IsFile(table, k)
        /\ IsDir(table, j)
        /\ j # <<>>
    /\ SqlInit(table).res.ok

\* the positions of an event in the record of the build
Positions(e) == {i \in 1..Len(events) : events[i] = e}
Before(a, b) == \A i \in Positions(a), j \in Positions(b) : i < j

\* no call failed for a reason outside the program
NoFault ==
    /\ Positions("fault") = {}
    /\ Positions("copy-skip") = {}

\* the session store has the version-control namespace
HasGitDir(t) == SqlStat(t, GitDir).res.ok /\ SqlStat(t, GitDir).res.kind = "dir"

\* C19: in every run of buildRepository the template commit, when a template
\* is given, is created before any session file is copied, and the main ref
\* is repointed only after the history copy has finished; each of the three
\* steps happens at most once.
C19_StepOrder ==
    pc # "idle" =>
        /\ Before("template-commit", "copy-file")
        /\ Before("template-commit", "history-copy")
        /\ Before("copy-file", "history-copy")
        /\ Before("history-copy", "ref-repoint")
        /\ (~templateDetails.isNull /\ Positions("copy-file") # {}) =>
                Positions("template-commit") # {}
        /\ Positions("ref-repoint") # {} => Positions("history-copy") # {}
        /\ \A e \in {"template-commit", "history-copy", "ref-repoint"} :
                Cardinality(Positions(e)) <= 1

\* a build with a template and a session with history has returned after
\* committing the template, copying files and repointing the main ref
C19_Witness ==
    /\ pc = "returned"
    /\ ~templateDetails.isNull
    /\ Positions("template-commit") # {}
    /\ Positions("copy-file") # {}
    /\ Positions("ref-repoint") # {}

\* C20: after a successful build with a template and a session that has
\* history, in which the repoint did not fail (the failure case is C23),
\* refs/heads/main of the built repository resolves to the commit that HEAD
\* resolves to in the session store, and every session commit object present
\* in the built repository has the content it has in the session.
C20_Repoint ==
    (/\ pc = "returned"
     /\ ~templateDetails.isNull
     /\ SqlResolveHead(table).ok
     /\ Positions("repoint-failure") = {}) =>
        /\ MemResolveMain(files).ok
        /\ MemResolveMain(files).oid = SqlResolveHead(table).oid
        /\ \A oid \in SessionOids :
            MemReadFile(files, ObjectPath(oid)).res.ok =>
                MemReadFile(files, ObjectPath(oid)).res = SqlReadFile(table, ObjectPath(oid)).res

\* a build with a template has returned after repointing the main ref to the
\* session's head, which is not the template commit
C20_Witness ==
    /\ pc = "returned"
    /\ ~templateDetails.isNull
    /\ Positions("template-commit") # {}
    /\ Positions("ref-repoint") # {}
    /\ SqlResolveHead(table).ok
    /\ MemResolveMain(files).oid = 3
    /\ MemReadFile(files, ObjectPath(2)).res.ok

\* C21: after buildRepository with a template and a session with history,
\* the template base commit is an ancestor of the commit refs/heads/main
\* resolves to.
C21_TemplateAncestor ==
    (/\ pc = "returned"
     /\ ~templateDetails.isNull
     /\ Positions("template-commit") # {}
     /\ Positions("ref-repoint") # {}
     /\ NoFault) =>
        TemplateOid \in CommitChain(files, MemResolveMain(files).oid, MaxChain)

\* C22: when no template is given and the session store has no /.git,
\* buildRepository does not throw, the repository it returns has no commit
\* and no ref, and handleInfoRefs on that repository returns an advertisement
\* with no ref instead of throwing.
C22_EmptyBuild ==
    (/\ templateDetails.isNull
     /\ ~HasGitDir(table)
     /\ NoFault
     /\ pc \in {"copyGitObjects", "copyDirectory", "failed", "returned"}) =>
        /\ pc # "failed"
        /\ MemReaddir(files, HeadsDir).res.names = {}
        /\ \A branches \in ListBranches(files) :
            /\ HandleInfoRefs(files, branches).ok
            /\ HandleInfoRefs(files, branches).text = ServiceLine \o FlushPacket \o FlushPacket

\* C23: when the session has /.git but resolving its HEAD or writing
\* refs/heads/main fails, buildRepository still returns, and in the returned
\* repository refs/heads/main resolves to the template base commit.
C23_RepointFailure ==
    (/\ Positions("repoint-failure") # {}
     /\ Positions("template-commit") # {}
     /\ HasGitDir(table)
     /\ NoFault) =>
        /\ pc = "returned"
        /\ MemResolveMain(files).ok
        /\ MemResolveMain(files).oid = TemplateOid

\* C24: a failure in a build phase other than the repoint aborts the build:
\* when git.init, git.add or git.commit fails, or reading or copying a file
\* or directory of the session history fails, buildRepository throws and
\* returns no repository.
C24_Abort ==
    /\ Positions("fault") # {} => pc = "failed"
    /\ Positions("enoent") # {} => pc = "failed"
    /\ pc = "returned" => Positions("copy-skip") = {}

\* C25: buildRepository performs the history copy and the repoint if and only
\* if /.git is a directory of the session store; hasGitRepository returns
\* false when it is not, and a build with a template then succeeds with the
\* template-only state.
C25_HistoryDetection ==
    /\ HasGitRepository(table) = HasGitDir(table)
    /\ (~HasGitDir(table) /\ NoFault) =>
        /\ pc \notin {"copyGitObjects", "copyDirectory", "failed"}
        /\ (pc = "returned" /\ ~templateDetails.isNull) =>
                MemResolveMain(files).oid = TemplateOid

\* the paths of the files under .git in the session store
SessionGitFiles(t) == {k \in DOMAIN t : IsFile(t, k) /\ StartsWith(k, <<".git", "/">>)}

\* C26: after a build that returned, from a session with history, every
\* file at any depth under /.git of the session store is in the built
\* repository at the same path with the same bytes.
C26_CopyComplete ==
    (pc = "returned" /\ HasGitDir(table)) =>
        \A k \in SessionGitFiles(table) :
            /\ MemReadFile(files, <<"/">> \o k).res.ok
            /\ MemReadFile(files, <<"/">> \o k).res = SqlReadFile(table, <<"/">> \o k).res

\* the frames of a pkt-line stream: the 4 hex characters give the length of
\* the frame, 0000 is a flush frame; a frame that does not fit has length -1
FlushFrame == [length |-> 0, payload |-> << >>]
BadFrame == [length |-> -1, payload |-> << >>]
RECURSIVE ParseFrames(_)
ParseFrames(text) ==
    IF text = << >> THEN << >>
    ELSE IF Len(text) < 4 THEN <<BadFrame>>
    ELSE LET n == ParseHex(SubSeq(text, 1, 4), 0)
         IN  IF n = 0 THEN <<FlushFrame>> \o ParseFrames(SubSeq(text, 5, Len(text)))
             ELSE IF n < 4 \/ n > Len(text) THEN <<BadFrame>>
             ELSE <<[length |-> n, payload |-> SubSeq(text, 5, n)]>>
                    \o ParseFrames(SubSeq(text, n + 1, Len(text)))

\* C27: for a repository whose HEAD resolves and whose branches are b1..bn
\* in the order git.listBranches gives them, handleInfoRefs returns the fixed
\* service announcement (the service line and its flush frame), then exactly
\* n+1 framed ref lines: the HEAD line, with the capability string after a
\* NUL, then one line per branch in the order b1..bn, each pairing the branch
\* with the id it resolves to; the text ends with a flush frame.
C27_RefAdvertisement ==
    \A branches \in ListBranches(files) :
        MemResolveHead(files).ok =>
            LET r == HandleInfoRefs(files, branches)
                frames == ParseFrames(r.text)
                n == Len(branches)
            IN  /\ r.ok
                /\ SubSeq(r.text, 1, Len(ServiceLine)) = ServiceLine
                /\ Len(frames) = n + 4
                /\ frames[1].length = Len(ServiceLine)
                /\ frames[2] = FlushFrame
                /\ frames[3].payload =
                        OidText(MemResolveHead(files).oid)
                            \o <<" ", "H", "E", "A", "D", "NUL">> \o Capabilities \o <<"\n">>
                /\ \A i \in 1..n :
                        frames[3 + i].payload =
                            OidText(MemResolveBranch(files, branches[i]).oid)
                                \o RefsHeadsPrefix \o Spell(branches[i]) \o <<"\n">>
                /\ frames[n + 4] = FlushFrame
                /\ \A i \in 3..(n + 3) : frames[i].length = Len(frames[i].payload) + 4

\* a repository with three branches that resolve to different commits
C27_Witness ==
    /\ MemResolveHead(files).ok
    /\ Cardinality(MemReaddir(files, HeadsDir).res.names) = 3
    /\ MemResolveBranch(files, <<"b">>).oid # MemResolveHead(files).oid
    /\ \E branches \in ListBranches(files) : HandleInfoRefs(files, branches).ok

\* the 4-character prefix of a frame is lowercase hex and its value is the
\* length of the frame in bytes
PrefixIsByteLength(frame) ==
    /\ Len(frame) >= 4
    /\ ParseHex(SubSeq(frame, 1, 4), 0) = Utf8Length(frame)

\* C28: every frame made by formatPacketLine for handleInfoRefs, and the
\* hard-coded service line, starts with 4 lowercase hex characters whose
\* value is the byte length of the whole frame, also for a ref name whose
\* encoded byte length differs from its number of characters.
C28_PktLine ==
    /\ PrefixIsByteLength(ServiceLine)
    /\ MemResolveHead(files).ok =>
            PrefixIsByteLength(FormatPacketLine(HeadLine(MemResolveHead(files).oid)))
    /\ \A name \in MemReaddir(files, HeadsDir).res.names :
            PrefixIsByteLength(
                FormatPacketLine(BranchLine(MemResolveBranch(files, name).oid, name)))

\* a tree and everything below it
RECURSIVE TreeClosure(_, _)
TreeClosure(f, oid) ==
    LET tree == ReadTree(f, oid).tree
    IN  {oid} \cup UNION {IF tree[i].type = TreeType THEN TreeClosure(f, tree[i].oid)
                          ELSE {tree[i].oid} : i \in 1..Len(tree)}

\* the objects reachable from a commit: the commit and its ancestors, the
\* tree of each of them, and everything below those trees
Reachable(f, head) ==
    LET commits == CommitChain(f, head, MaxCommits + 1)
    IN  commits \cup UNION {TreeClosure(f, ReadCommit(f, c).tree) : c \in commits}

Range(seq) == {seq[i] : i \in 1..Len(seq)}

\* C29: the object ids handleUploadPack passes to git.packObjects are the
\* objects reachable from the HEAD commit through commit-to-tree,
\* commit-to-parent and tree-to-entry edges: all of them and nothing else.
C29_ReachableClosure ==
    HandleUploadPack(files).ok =>
        Range(HandleUploadPack(files).objects) = Reachable(files, MemResolveHead(files).oid)

\* C30: the array handleUploadPack passes to git.packObjects holds each
\* object id once, also when an object is referenced several times.
C30_NoDuplicates ==
    HandleUploadPack(files).ok =>
        LET objects == HandleUploadPack(files).objects
        IN  \A i, j \in 1..Len(objects) : i # j => objects[i] # objects[j]

\* C31: for every packfile P that git.packObjects returns, handleUploadPack
\* returns |P| + 1 bytes: the pack-data channel marker 1, then the bytes of
\* P in order; there is no other frame and no other channel.
C31_Sideband ==
    HandleUploadPack(files).ok =>
        \A P \in Packs :
            LET r == UploadPack(files, PackOf(P))
            IN  /\ r.ok
                /\ Len(r.bytes) = Len(P) + 1
                /\ r.bytes[1] = 1
                /\ SubSeq(r.bytes, 2, Len(r.bytes)) = P

\* a repository with a commit is served a packfile of the largest length
\* whose bytes are themselves channel numbers
C31_Witness ==
    /\ HandleUploadPack(files).ok
    /\ UploadPack(files, PackOf([i \in 1..MaxPackLen |-> 2])).bytes
            = <<1>> \o [i \in 1..MaxPackLen |-> 2]

\* every tree from oid down can be read
RECURSIVE TreesReadable(_, _)
TreesReadable(f, oid) ==
    /\ ReadTree(f, oid).ok
    /\ \A i \in 1..Len(ReadTree(f, oid).tree) :
        ReadTree(f, oid).tree[i].type = TreeType =>
            TreesReadable(f, ReadTree(f, oid).tree[i].oid)

\* the repositories that files is, or is with one file lost
WithOneLost(f) == {f} \cup {MemUnlink(f, <<"/">> \o k).st : k \in DOMAIN f}

\* C32: handleInfoRefs and handleUploadPack are all-or-nothing. When resolving
\* HEAD, listing the branches or resolving a branch fails, handleInfoRefs
\* throws and returns no text; when resolving HEAD, reading the commit or a
\* tree, or building the pack fails, or no packfile comes back,
\* handleUploadPack throws and returns no bytes. They return a result only
\* when every step succeeded.
C32_AllOrNothing ==
    /\ \A branches \in ListBranches(files), head \in {MemResolveHead(files), Failed},
          bad \in SUBSET MemReaddir(files, HeadsDir).res.names, listedOk \in BOOLEAN :
            LET refs == [b \in Range(branches) |->
                            IF b \in bad THEN Failed ELSE MemResolveBranch(files, b)]
                r == InfoRefsSteps(head, [ok |-> listedOk, branches |-> branches], refs)
            IN  /\ r.ok <=> (head.ok /\ listedOk /\ \A b \in Range(branches) : refs[b].ok)
                /\ ~r.ok => r.text = << >>
    /\ \A g \in WithOneLost(files), packResult \in PackResults :
            LET r == UploadPack(g, packResult)
                head == MemResolveHead(g)
            IN  /\ r.ok <=> (/\ head.ok
                             /\ ReadCommit(g, head.oid).ok
                             /\ TreesReadable(g, ReadCommit(g, head.oid).tree)
                             /\ packResult.ok
                             /\ packResult.hasPack)
                /\ ~r.ok => r.bytes = << >>

\* a repository with several branches on which both operations succeed, and
\* on which handleUploadPack fails once a tree object is lost
C32_Witness ==
    /\ Cardinality(MemReaddir(files, HeadsDir).res.names) >= 2
    /\ \E branches \in ListBranches(files) : HandleInfoRefs(files, branches).ok
    /\ UploadPack(files, PackOf(<<0>>)).ok
    /\ ~UploadPack(MemUnlink(files, ObjectPath(12)).st, PackOf(<<0>>)).ok
    /\ ~UploadPack(files, PackMissing).ok

\* C33: for every repository whose HEAD resolves and whose objects are all
\* present (a finite acyclic graph, with any history depth and any sharing
\* between trees), the object collection of handleUploadPack terminates and
\* reaches the call of git.packObjects.
C33_Terminates ==
    (pc = "git.resolveRef" /\ MemResolveHead(files).ok) ~> (pc = "git.packObjects")

\* the collection has reached git.packObjects for a history of MaxCommits
\* commits whose tree has a subtree and a blob shared between the two, with
\* the array handleUploadPack builds
C33_Witness ==
    /\ pc = "git.packObjects"
    /\ Cardinality(MainCommits(files)) = MaxCommits
    /\ ReadCommit(files, agentHeadOid).tree = 14
    /\ events = HandleUploadPack(files).objects
    /\ Len(events) = 7

\* the files of a repository outside .git
WorkTree(f) == {k \in DOMAIN f : ~StartsWith(k, <<".git", "/">>)}

\* C34: each buildRepository call works on a store of its own: for every
\* interleaving of two concurrent calls, the repository of a call holds no
\* file written by the other call. Its work tree is made of the files of
\* its own template, with the contents of its own template.
C34_Isolation ==
    /\ \A k \in WorkTree(files) :
        /\ k \in DOMAIN templateDetails.allFiles
        /\ files[k] = TextEncode(templateDetails.allFiles[k])
    /\ peer # NoPeer =>
        \A k \in WorkTree(peer.files) :
            /\ k \in DOMAIN peer.templateDetails.allFiles
            /\ peer.files[k] = TextEncode(peer.templateDetails.allFiles[k])

\* both calls have returned, each with the files of its own template and
\* with the history of the session
C34_Witness ==
    /\ peer # NoPeer
    /\ pc = "returned"
    /\ peer.pc = "returned"
    /\ WorkTree(files) # WorkTree(peer.files)
    /\ WorkTree(files) # {}
    /\ WorkTree(peer.files) # {}
    /\ MemResolveMain(files).oid = 2
    /\ MemResolveMain(peer.files).oid = 2

\* C35: a SqliteFS writeFile, mkdir, unlink or rmdir call that throws leaves
\* the table as it was: the same rows, of the same kinds, with the same
\* contents. A rejected writeFile has inserted no parent directory.
C35_FailedCallsChangeNothing ==
    OnSql => \A p \in Paths :
        LET made == SqlMkdir(table, p)
            unlinked == SqlUnlink(table, p)
            removed == SqlRmdir(table, p)
        IN  /\ \A d \in Datas :
                LET written == SqlWriteFile(table, p, d)
                IN  ~written.res.ok => written.st = table
            /\ ~made.res.ok => made.st = table
            /\ ~unlinked.res.ok => unlinked.st = table
            /\ ~removed.res.ok => removed.st = table

\* the table holds the file a/a and not its parent a (left behind by a call
\* that removed a), and a content above the limit written to a/a is rejected
\* without a row for a; every other failure occurs in the same state
C35_Witness ==
    /\ OnSql
    /\ IsFile(table, <<"a", "/", "a">>)
    /\ <<"a">> \notin DOMAIN table
    /\ \E d \in Datas :
        /\ SqlWriteFile(table, <<"a", "/", "a">>, d).res.code = "NOCODE"
        /\ <<"a">> \notin DOMAIN SqlWriteFile(table, <<"a", "/", "a">>, d).st
    /\ SqlWriteFile(table, <<"/">>, EmptyData).res.code = "NOCODE"
    /\ SqlUnlink(table, <<"a">>).res.code = "ENOENT"
    /\ SqlRmdir(table, <<"a", "/", "a">>).res.code = "ENOTDIR"
    /\ SqlMkdir(table, <<"a", "/", "a">>).res.code = "ENOENT"

\* contents of one, two and three bytes besides the ones the states hold
StatDatas == Datas \cup HighByteDatas

\* C36: stat of a file just written. MemFS reports the byte length of the
\* content; SqliteFS reports a size s with n <= s <= n + 2 for a content of
\* n bytes, s = n when n is a multiple of 3 (the empty file included), and 0
\* for a directory.
C36_StatSize ==
    /\ \A p \in Paths, d \in StatDatas :
        LET n == ByteLength(d)
            mem == MemStat(MemWriteFile(files, p, d).st, p).res
            w == SqlWriteFile(table, p, d)
            s == SqlStat(w.st, p).res
        IN  /\ OnMem => (mem.ok /\ mem.kind = "file" /\ mem.size = n)
            /\ (OnSql /\ w.res.ok) =>
                /\ s.ok /\ s.kind = "file"
                /\ n <= s.size /\ s.size <= n + 2
                /\ n % 3 = 0 => s.size = n
    /\ \A k \in DOMAIN table :
        /\ IsDir(table, k) => SqlStat(table, k).res.size = 0
        /\ IsFile(table, k) =>
            LET n == ByteLength(Decode(table[k].data))
            IN  /\ n <= SqlStat(table, k).res.size
                /\ SqlStat(table, k).res.size <= n + 2
    /\ \A k \in DOMAIN files : MemStat(files, <<"/">> \o k).res.size = ByteLength(files[k])

\* both stores hold a file of MAX_OBJECT_SIZE bytes under the root, stat
\* gives its exact size on both, and a one-byte content written beside it
\* would be reported as 3 bytes by SqliteFS and as 1 byte by MemFS
C36_Witness ==
    /\ backend = "both"
    /\ \E k \in DOMAIN files \cap DOMAIN table :
        /\ IsFile(table, k)
        /\ ByteLength(files[k]) = MAX_OBJECT_SIZE
        /\ MemStat(files, k).res.size = MAX_OBJECT_SIZE
        /\ SqlStat(table, k).res.size = MAX_OBJECT_SIZE
        /\ SqlStat(SqlWriteFile(table, k, [blocks |-> 0, tail |-> <<255>>]).st, k).res.size = 3
        /\ MemStat(MemWriteFile(files, k, [blocks |-> 0, tail |-> <<255>>]).st, k).res.size = 1
    /\ IsDir(table, <<>>)
    /\ SqlStat(table, <<"/">>).res = OkStat("dir", 0)

\* the tokens a request presents: what follows Bearer, or the fields of a
\* Basic credential that decodes
PresentedTokens(header) ==
    IF header.scheme = "Bearer " THEN {header.text}
    ELSE IF header.scheme = "Basic " /\ header.base64 THEN Range(SplitColon(header.text))
    ELSE {}

\* the request carries a Bearer or Basic credential whose token verifies and
\* whose subject is the owner of the app
OwnerCredential ==
    /\ http.app.found
    /\ \E token \in PresentedTokens(http.header) :
        /\ VerifyToken(token).verified
        /\ VerifyToken(token).sub = http.app.userId

NotPublic == ~(http.app.found /\ http.app.visibility = "public")

\* C38 (first half): for an app that is not public, the agent is contacted,
\* a repository is built or a 200 response is returned only if the request
\* carries the owner's credential.
C38_OnlyOwner ==
    (NotPublic /\ (events # << >> \/ http.status = 200)) => OwnerCredential

\* C38: git access control. For an app that is not public, the handlers
\* contact the agent, build a repository or answer 200 only for a request
\* with the owner's credential; every other request is answered 404 and
\* nothing is produced for it.
C38_AccessControl ==
    /\ C38_OnlyOwner
    /\ (NotPublic /\ ~OwnerCredential /\ pc = "responded") =>
            /\ http.status = 404
            /\ events = << >>

\* C39: when the agent reports no commits, info/refs answers 200 with
\* exactly the framed service line followed by a flush frame, so that no ref
\* is advertised; git-upload-pack answers 404; and GitCloneService is not
\* called: no buildRepository, no handleInfoRefs, no handleUploadPack.
C39_EmptyRepository ==
    (Positions("exportGitObjects") # {} /\ ~http.hasCommits) =>
        /\ pc = "responded"
        /\ http.handler = "info/refs" =>
            /\ http.status = 200
            /\ http.body =
                FormatPacketLine(SubSeq(ServiceLine, 5, Len(ServiceLine))) \o FlushPacket
            /\ ParseFrames(http.body) =
                <<[length |-> Len(ServiceLine),
                   payload |-> SubSeq(ServiceLine, 5, Len(ServiceLine))], FlushFrame>>
        /\ http.handler = "git-upload-pack" =>
            /\ http.status = 404
            /\ http.body = <<"No commits to pack">>
        /\ Positions("buildRepository") = {}
        /\ Positions("handleInfoRefs") = {}
        /\ Positions("handleUploadPack") = {}

\* the owner of a private app asks for info/refs with a Basic credential,
\* the agent is initialized and reports no commits
C39_Witness ==
    /\ pc = "responded"
    /\ http.app.visibility = "private"
    /\ http.header.scheme = "Basic "
    /\ http.handler = "info/refs"
    /\ ~http.hasCommits
    /\ events = <<"getAgentStub", "isInitialized", "exportGitObjects">>
    /\ http.status = 200
    /\ http.body = EmptyAdvertisement

\* the tree oid and everything below it is in the repository
RECURSIVE TreeComplete(_, _)
TreeComplete(f, oid) ==
    /\ ReadTree(f, oid).ok
    /\ \A i \in 1..Len(ReadTree(f, oid).tree) :
        LET e == ReadTree(f, oid).tree[i]
        IN  IF e.type = TreeType THEN TreeComplete(f, e.oid)
            ELSE MemReadFile(f, ObjectPath(e.oid)).res.ok

\* C37: a session commit that interleaves with buildRepository. When no
\* call of the build fails, the repository it returns has refs/heads/main
\* resolving to a commit whose object file, tree and blobs are all in the
\* volatile store.
C37_MainComplete ==
    (pc = "returned" /\ NoFault /\ Positions("repoint-failure") = {}) =>
        LET main == MemResolveMain(files)
        IN  /\ main.ok
            /\ ReadCommit(files, main.oid).ok
            /\ TreeComplete(files, ReadCommit(files, main.oid).tree)

====
